---- MODULE Spec2Model ----
(***************************************************************************)
(* Model of the revenue-breakdown extraction engine of sec-edgar-parser:   *)
(* RevenueBreakdownExtractor and Filing.get_revenue_breakdown              *)
(* (src/edgar/filing.py) and the hand-over of the result in                *)
(* extract_financial_data (src/edgar/main.py).                             *)
(*                                                                         *)
(* Conventions                                                             *)
(*  - Python str is a TLA+ string; a table cell is the text of its single  *)
(*    text node.  The em dash (U+2014) of the source is written "~",       *)
(*    a character that occurs nowhere else in the model.                   *)
(*  - Python None is << >> and a present value v is <<v>> wherever a       *)
(*    number may be absent (Some / None below); extraction_method, which   *)
(*    is a str or None, uses the marker string NoMethod for None.          *)
(*  - A float is an exact decimal [sig, exp] = sig * 10^exp, normalised so *)
(*    that equal numbers are equal records.  The amount texts of the model *)
(*    are decimals whose product with the multiplier is exact in binary    *)
(*    floating point, so the decimal is the float the code computes.       *)
(*  - A dict is a function on its set of keys; a list is a sequence.       *)
(***************************************************************************)
EXTENDS Integers, Sequences, FiniteSets, TLC

(***************************************************************************)
(* Python values                                                           *)
(***************************************************************************)
None == << >>

Some(v) == <<v>>

NoMethod == "None"

EmDash == "~"

EmptyDict == [k \in {} |-> 0]

DictSet(d, key, v) == [k \in (DOMAIN d) \cup {key} |-> IF k = key THEN v ELSE d[k]]

DictUpdate(d, e) == [k \in (DOMAIN d) \cup (DOMAIN e) |-> IF k \in DOMAIN e THEN e[k] ELSE d[k]]

(***************************************************************************)
(* str methods                                                             *)
(***************************************************************************)
UpperCase == "ABCDEFGHIJKLMNOPQRSTUVWXYZ"

LowerCase == "abcdefghijklmnopqrstuvwxyz"

Digits == "0123456789"

CharAt(s, i) == SubSeq(s, i, i)

IndexIn(alphabet, c) == IF \E i \in 1..Len(alphabet) : CharAt(alphabet, i) = c
                        THEN CHOOSE i \in 1..Len(alphabet) : CharAt(alphabet, i) = c
                        ELSE 0

LowerChar(c) == IF IndexIn(UpperCase, c) > 0 THEN CharAt(LowerCase, IndexIn(UpperCase, c)) ELSE c

\* s.lower(), by halves so that the depth of the recursion is logarithmic
RECURSIVE lower(_)
lower(s) == IF Len(s) = 0 THEN ""
            ELSE IF Len(s) = 1 THEN LowerChar(s)
            ELSE lower(SubSeq(s, 1, Len(s) \div 2)) \o lower(SubSeq(s, Len(s) \div 2 + 1, Len(s)))

StartsWith(s, k) == Len(k) <= Len(s) /\ SubSeq(s, 1, Len(k)) = k

\* `k in s` for strings
Contains(s, k) == \E i \in 1..(Len(s) - Len(k) + 1) : SubSeq(s, i, i + Len(k) - 1) = k

\* any(k in s for k in keywords)
ContainsAny(s, keywords) == \E k \in keywords : Contains(s, k)

\* s.replace(old, new) for a non-empty old: leftmost, non-overlapping
RECURSIVE replace(_, _, _)
replace(s, old, new) ==
    IF Len(s) = 0 THEN ""
    ELSE IF StartsWith(s, old) THEN new \o replace(SubSeq(s, Len(old) + 1, Len(s)), old, new)
    ELSE CharAt(s, 1) \o replace(Tail(s), old, new)

IsSpace(c) == c \in {" ", "\t", "\n"}

RECURSIVE lstrip(_)
lstrip(s) == IF Len(s) > 0 /\ IsSpace(CharAt(s, 1)) THEN lstrip(Tail(s)) ELSE s

RECURSIVE rstrip(_)
rstrip(s) == IF Len(s) > 0 /\ IsSpace(CharAt(s, Len(s))) THEN rstrip(SubSeq(s, 1, Len(s) - 1)) ELSE s

strip(s) == rstrip(lstrip(s))

IsDigit(c) == IndexIn(Digits, c) > 0

AllDigits(s) == \A i \in 1..Len(s) : IsDigit(CharAt(s, i))

DigitVal(c) == IndexIn(Digits, c) - 1

RECURSIVE IntOf(_)
IntOf(s) == IF Len(s) = 0 THEN 0 ELSE IntOf(SubSeq(s, 1, Len(s) - 1)) * 10 + DigitVal(CharAt(s, Len(s)))

(***************************************************************************)
(* float: exact decimals sig * 10^exp                                      *)
(***************************************************************************)
RECURSIVE Norm(_, _)
Norm(sig, exp) == IF sig = 0 THEN [sig |-> 0, exp |-> 0]
                  ELSE IF sig % 10 = 0 THEN Norm(sig \div 10, exp + 1)
                  ELSE [sig |-> sig, exp |-> exp]

Num(n) == Norm(n, 0)

\* x * 10^k
Scale10(x, k) == Norm(x.sig, x.exp + k)

Neg(x) == [sig |-> 0 - x.sig, exp |-> x.exp]

IsAmount(v) == DOMAIN v = {"sig", "exp"}

\* digits[.digits] | digits. | .digits, without sign, the point at position p
DecimalAt(s, p) ==
    IF /\ CharAt(s, p) = "."
       /\ Len(s) > 1
       /\ AllDigits(SubSeq(s, 1, p - 1))
       /\ AllDigits(SubSeq(s, p + 1, Len(s)))
    THEN Some(Norm(IntOf(SubSeq(s, 1, p - 1) \o SubSeq(s, p + 1, Len(s))), p - Len(s)))
    ELSE None

UnsignedDecimal(s) ==
    IF Len(s) > 0 /\ AllDigits(s) THEN Some(Norm(IntOf(s), 0))
    ELSE IF \E p \in 1..Len(s) : CharAt(s, p) = "."
    THEN DecimalAt(s, CHOOSE p \in 1..Len(s) : CharAt(s, p) = ".")
    ELSE None

NegOpt(u) == IF u = None THEN None ELSE Some(Neg(u[1]))

\* float of a text without surrounding whitespace; one sign is allowed
FloatStripped(t) ==
    IF Len(t) > 0 /\ CharAt(t, 1) \in {"-", "+"}
    THEN IF CharAt(t, 1) = "-" THEN NegOpt(UnsignedDecimal(Tail(t))) ELSE UnsignedDecimal(Tail(t))
    ELSE UnsignedDecimal(t)

\* float(s): Some(value), or None where Python raises ValueError.
\* Surrounding whitespace is ignored, as in Python.
float(s) == FloatStripped(strip(s))

(***************************************************************************)
(* RevenueBreakdownExtractor: amount parser, row filters, categoriser      *)
(***************************************************************************)
\* ScaleOpt without the `except ValueError`: the exception reaches the caller
ValueError == <<"ValueError", "raised">>
ScaleOptUncaught(f, power) == IF f = None THEN ValueError ELSE Some(Scale10(f[1], power))

\* `try: return float(amount_text) * multiplier` / `except ValueError: return None`
ScaleOpt(f, power) == IF f = None THEN None ELSE Some(Scale10(f[1], power))

\* `if amount_text in ['-', ...]: return None`, then float(amount_text) * multiplier;
\* unit is <<amount_text, power of ten of the multiplier>>
parse_number(unit) ==
    IF unit[1] \in {EmDash, "-", "", "N/A", "n/a"} THEN None
    ELSE ScaleOpt(float(unit[1]), unit[2])

\* parse_units that looks for the magnitude words in the text as written, not lower-cased
parse_units_case_sensitive(cleaned, low) ==
    IF Contains(cleaned, "million") \/ Contains(cleaned, "m")
    THEN <<replace(replace(cleaned, "million", ""), "m", ""), 6>>
    ELSE IF Contains(cleaned, "thousand") \/ Contains(cleaned, "k")
    THEN <<replace(replace(cleaned, "thousand", ""), "k", ""), 3>>
    ELSE <<cleaned, 0>>

\* parse_units without the magnitude words: the text is converted as it is
parse_units_ignored(cleaned, low) == <<cleaned, 0>>

\* the unit handling: the text left to convert and the power of ten of the multiplier
parse_units(cleaned, low) ==
    IF Contains(low, "million") \/ Contains(low, "m")
    THEN <<replace(replace(low, "million", ""), "m", ""), 6>>
    ELSE IF Contains(low, "thousand") \/ Contains(low, "k")
    THEN <<replace(replace(low, "thousand", ""), "k", ""), 3>>
    ELSE <<cleaned, 0>>

parse_cleaned(cleaned) == parse_number(parse_units(cleaned, lower(cleaned)))

\* Some(number) or None
_parse_amount(amount_text) ==
    IF amount_text = "" THEN None
    ELSE parse_cleaned(strip(replace(replace(replace(replace(amount_text, ",", ""), "$", ""), "(", "-"), ")", "")))

revenue_indicators == {"total revenue", "net sales", "total net sales", "revenue", "sales",
                       "total sales", "net revenue", "total revenues", "net revenues"}

exclude_terms == {"cost", "expense", "income", "profit", "margin", "percentage",
                  "ratio", "growth", "change", "variance"}

\* _is_revenue_row without the exclusion list
_is_revenue_row_inclusive(label) == ContainsAny(lower(label), revenue_indicators)

_is_revenue_row(label) ==
    IF ~ContainsAny(lower(label), revenue_indicators) THEN FALSE
    ELSE IF ContainsAny(lower(label), exclude_terms) THEN FALSE
    ELSE TRUE

revenue_categories == {"sales", "revenue", "net sales", "total sales", "product", "service",
                       "segment", "geographic", "category", "foods", "non-foods", "fresh foods",
                       "ancillary", "warehouse", "automotive", "energy", "services", "leasing",
                       "iphone", "mac", "ipad", "wearables", "accessories", "total net sales",
                       "product net sales"}

_is_merchandise_category(category_name) == ContainsAny(lower(category_name), revenue_categories)

_categorize_revenue_source(description) ==
    IF ContainsAny(lower(description), {"united states", "canada", "international", "americas", "europe", "asia"})
    THEN "geographic_segment"
    ELSE IF ContainsAny(lower(description), {"foods", "non-foods", "fresh foods", "automotive", "energy", "services", "product"})
    THEN "merchandise_category"
    ELSE IF ContainsAny(lower(description), {"segment", "division"})
    THEN "business_segment"
    ELSE "other"

(***************************************************************************)
(* Tables.  A table is the sequence of its <tr> rows, a row the sequence   *)
(* of the texts of its <th>/<td> cells.  Column indices are 0-based as in  *)
(* the source: cells[idx] is Cell(cells, idx).                             *)
(***************************************************************************)
Cell(cells, idx) == cells[idx + 1]

RECURSIVE JoinCells(_)
JoinCells(cells) == IF cells = << >> THEN "" ELSE Head(cells) \o JoinCells(Tail(cells))

\* table.get_text(): the text nodes of the table in document order
RECURSIVE get_text(_)
get_text(rows) == IF rows = << >> THEN "" ELSE JoinCells(Head(rows)) \o get_text(Tail(rows))

\* re.search(r'20\d{2}', text): Some(group(0)) of the leftmost match, or None
search_20dd(text) ==
    LET hit(i) == /\ SubSeq(text, i, i + 1) = "20"
                  /\ IsDigit(CharAt(text, i + 2))
                  /\ IsDigit(CharAt(text, i + 3))
        hits == {i \in 1..(Len(text) - 3) : hit(i)}
    IN  IF hits = {} THEN None
        ELSE LET i == CHOOSE h \in hits : \A g \in hits : h <= g IN Some(SubSeq(text, i, i + 3))

\* re.search(r'20\d{2}|\d{4}', text): Some(group(0)) of the leftmost match, or None
search_year(text) ==
    LET hit(i) == \/ /\ SubSeq(text, i, i + 1) = "20"
                     /\ IsDigit(CharAt(text, i + 2))
                     /\ IsDigit(CharAt(text, i + 3))
                  \/ AllDigits(SubSeq(text, i, i + 3))
        hits == {i \in 1..(Len(text) - 3) : hit(i)}
    IN  IF hits = {} THEN None
        ELSE LET i == CHOOSE h \in hits : \A g \in hits : h <= g IN Some(SubSeq(text, i, i + 3))

\* re.search(r'20\d{2}|fiscal\s*20\d{2}|fy\s*20\d{2}|\d{4}', text, re.IGNORECASE) is not None
\* (the two middle alternatives contain a match of the first)
match_year_header(text) ==
    \E i \in 1..(Len(text) - 3) :
        \/ /\ SubSeq(text, i, i + 1) = "20"
           /\ IsDigit(CharAt(text, i + 2))
           /\ IsDigit(CharAt(text, i + 3))
        \/ AllDigits(SubSeq(text, i, i + 3))

(***************************************************************************)
(* _extract_revenue_from_table: the generic extractor                      *)
(***************************************************************************)
\* for i, cell in enumerate(header_cells): year_columns.append((i, year))
RECURSIVE generic_year_columns(_, _)
generic_year_columns(header_cells, i) ==
    IF i >= Len(header_cells) THEN << >>
    ELSE LET year_match == search_20dd(strip(Cell(header_cells, i))) IN
         (IF year_match # None THEN << <<i, year_match[1]>> >> ELSE << >>)
            \o generic_year_columns(header_cells, i + 1)

GenericKey(label, year) == label \o "_" \o year

\* a store of one cell that leaves revenue_sources alone
generic_record_unsourced(data, label, year, amount) ==
    IF amount # None
    THEN [data EXCEPT !.revenue_breakdown = DictSet(@, GenericKey(label, year), amount[1])]
    ELSE data

\* `if amount is not None:` the two stores of one cell
generic_record(data, label, year, amount) ==
    IF amount # None
    THEN [revenue_breakdown |-> DictSet(data.revenue_breakdown, GenericKey(label, year), amount[1]),
          revenue_sources |-> Append(data.revenue_sources,
                                [description |-> label,
                                 amount |-> amount[1],
                                 year |-> year,
                                 category |-> _categorize_revenue_source(label)])]
    ELSE data

\* for col_idx, year in year_columns: ...
RECURSIVE generic_columns(_, _, _, _, _)
generic_columns(data, label, cells, year_columns, j) ==
    IF j > Len(year_columns) THEN data
    ELSE generic_columns(
           IF year_columns[j][1] >= Len(cells) THEN data
           ELSE generic_record(data, label, year_columns[j][2],
                               _parse_amount(strip(Cell(cells, year_columns[j][1])))),
           label, cells, year_columns, j + 1)

\* for row in rows[1:]: ...   (rows[r - 1] in the source is rows[r] here)
RECURSIVE generic_rows(_, _, _, _)
generic_rows(data, rows, year_columns, r) ==
    IF r > Len(rows) THEN data
    ELSE generic_rows(
           IF Len(rows[r]) < 2 THEN data
           ELSE IF ~_is_revenue_row(strip(Cell(rows[r], 0))) THEN data
           ELSE generic_columns(data, strip(Cell(rows[r], 0)), rows[r], year_columns, 1),
           rows, year_columns, r + 1)

\* `return revenue_data if revenue_data['revenue_breakdown'] else None`
ExtractedOrNone(data) == IF DOMAIN data.revenue_breakdown # {} THEN Some(data) ELSE None

generic_with_columns(table, year_columns) ==
    IF year_columns = << >> THEN None
    ELSE ExtractedOrNone(generic_rows([revenue_breakdown |-> EmptyDict, revenue_sources |-> << >>],
                                      table, year_columns, 2))

\* Some([revenue_breakdown, revenue_sources]) or None
_extract_revenue_from_table(table) ==
    IF Len(table) < 2 THEN None
    ELSE generic_with_columns(table, generic_year_columns(table[1], 0))

(***************************************************************************)
(* _extract_segment_revenue_from_table                                     *)
(***************************************************************************)
segment_markers == {"united states", "canada", "international", "segment"}

RECURSIVE segment_header_columns(_, _)
segment_header_columns(header_cells, i) ==
    IF i >= Len(header_cells) THEN << >>
    ELSE LET cell_text == strip(Cell(header_cells, i)) IN
         (IF ContainsAny(lower(cell_text), segment_markers) THEN << <<i, cell_text>> >> ELSE << >>)
            \o segment_header_columns(header_cells, i + 1)

SegmentKey(segment_name) == segment_name \o "_revenue"

\* `if amount is not None:` the two stores of one cell
segment_record(data, segment_name, amount) ==
    IF amount # None
    THEN [revenue_breakdown |-> DictSet(data.revenue_breakdown, SegmentKey(segment_name), amount[1]),
          revenue_sources |-> Append(data.revenue_sources,
                                [description |-> segment_name \o " Revenue",
                                 amount |-> amount[1],
                                 segment |-> segment_name,
                                 category |-> "geographic_segment"])]
    ELSE data

\* for col_idx, segment_name in segment_columns: ...
RECURSIVE segment_columns_loop(_, _, _, _)
segment_columns_loop(data, cells, segment_columns, j) ==
    IF j > Len(segment_columns) THEN data
    ELSE segment_columns_loop(
           IF segment_columns[j][1] >= Len(cells) THEN data
           ELSE segment_record(data, segment_columns[j][2],
                               _parse_amount(strip(Cell(cells, segment_columns[j][1])))),
           cells, segment_columns, j + 1)

\* `if 'total revenue' in row_label or 'net sales' in row_label`
is_segment_revenue_row(row_label) == Contains(row_label, "total revenue") \/ Contains(row_label, "net sales")

\* for row in rows[1:]: ...
RECURSIVE segment_rows(_, _, _, _)
segment_rows(data, rows, segment_columns, r) ==
    IF r > Len(rows) THEN data
    ELSE segment_rows(
           IF Len(rows[r]) < 2 THEN data
           ELSE IF ~is_segment_revenue_row(lower(strip(Cell(rows[r], 0)))) THEN data
           ELSE segment_columns_loop(data, rows[r], segment_columns, 1),
           rows, segment_columns, r + 1)

segment_with_columns(table, segment_columns) ==
    IF segment_columns = << >> THEN None
    ELSE ExtractedOrNone(segment_rows([revenue_breakdown |-> EmptyDict, revenue_sources |-> << >>],
                                      table, segment_columns, 2))

\* Some([revenue_breakdown, revenue_sources]) or None
_extract_segment_revenue_from_table(table) ==
    IF Len(table) < 2 THEN None
    ELSE segment_with_columns(table, segment_header_columns(table[1], 0))

(***************************************************************************)
(* Table-level part of _extract_from_merchandise_category_tables           *)
(***************************************************************************)
merchandise_keywords ==
    {"foods and sundries", "non-foods", "fresh foods", "food", "sundries",
     "ancillary", "warehouse", "grocery", "apparel", "electronics", "pharmacy",
     "hardlines", "softlines", "membership fees", "merchandise", "ancillary and other",
     "net sales", "total sales", "automotive sales", "automotive regulatory credits",
     "energy generation and storage", "services and other", "automotive leasing",
     "energy generation and storage leasing", "segment", "product", "service",
     "geographic", "category", "revenue", "sales", "disaggregated", "iphone", "mac",
     "Wearables, Home and Accessories"}

total_indicators == {"total", "net", "grand total", "consolidated"}

\* `if year not in seen_years: temp_years.append((i, year)); seen_years.add(year)`
\* acc is <<temp_years, seen_years>>
merch_add_year(acc, i, year) ==
    IF year \notin acc[2] THEN <<Append(acc[1], <<i, year>>), acc[2] \cup {year}>> ELSE acc

\* for i, cell in enumerate(potential_headers): temp_years, deduplicated by seen_years
RECURSIVE merch_temp_years(_, _, _)
merch_temp_years(potential_headers, i, acc) ==
    IF i >= Len(potential_headers) THEN acc[1]
    ELSE merch_temp_years(potential_headers, i + 1,
           IF match_year_header(strip(Cell(potential_headers, i)))
           THEN merch_add_year(acc, i, search_year(strip(Cell(potential_headers, i)))[1])
           ELSE acc)

FirstNonEmpty(first, rest) == IF first # << >> THEN first ELSE rest

\* a scan for the header that goes through every row of the table
RECURSIVE merch_year_columns_all_rows(_, _)
merch_year_columns_all_rows(rows, r) ==
    IF r > Len(rows) THEN << >>
    ELSE FirstNonEmpty(merch_temp_years(rows[r], 0, <<<< >>, {}>>),
                       merch_year_columns_all_rows(rows, r + 1))

\* for row in rows[:5]: the year columns of the first row that has any
RECURSIVE merch_year_columns(_, _)
merch_year_columns(rows, r) ==
    IF r > Len(rows) \/ r > 5 THEN << >>
    ELSE FirstNonEmpty(merch_temp_years(rows[r], 0, <<<< >>, {}>>), merch_year_columns(rows, r + 1))

\* `if (not cell_text or cell_text in ['$', ...]) and idx + 1 < len(cells)`: the text parsed
merch_raw_text(cells, col_idx, cell_text) ==
    IF (cell_text = "" \/ cell_text \in {"$", EmDash, "-"}) /\ col_idx + 1 < Len(cells)
    THEN strip(Cell(cells, col_idx + 1))
    ELSE cell_text

\* `if amount is not None: revenue_by_year[year] = amount`
merch_year_amount(year, amount) ==
    IF amount # None THEN DictSet(EmptyDict, year, amount[1]) ELSE EmptyDict

\* a read of the first year column that falls back on the last cell of a row
\* that is too short
merch_revenue_by_year_realigned(cells, year_columns) ==
    merch_year_amount(year_columns[1][2],
        _parse_amount(strip(Cell(cells, IF year_columns[1][1] >= Len(cells)
                                        THEN Len(cells) - 1 ELSE year_columns[1][1]))))

\* revenue_by_year of one row: only year_indices[0] is read
merch_revenue_by_year(cells, year_columns) ==
    IF year_columns[1][1] >= Len(cells) THEN EmptyDict      \* IndexError: pass
    ELSE merch_year_amount(year_columns[1][2],
           _parse_amount(merch_raw_text(cells, year_columns[1][1],
                                        strip(Cell(cells, year_columns[1][1])))))

\* `if any(indicator in category_name.lower() ...) and any(key in category_name.lower() ...)`
is_total_row(category_name) ==
    /\ ContainsAny(lower(category_name), total_indicators)
    /\ ContainsAny(lower(category_name), {"sales", "revenue"})

\* one row that reaches `if revenue_by_year:`, with its category_name, its
\* revenue_by_year, its category and whether it is a total row
merch_row(category_name, revenue_by_year) ==
    IF DOMAIN revenue_by_year # {}
    THEN << [category_name |-> category_name,
             revenue_by_year |-> revenue_by_year,
             category |-> _categorize_revenue_source(category_name),
             total |-> is_total_row(category_name)] >>
    ELSE << >>

\* for row in rows[1:]: the rows that reach `if revenue_by_year:`, in order
RECURSIVE merch_rows(_, _, _)
merch_rows(rows, year_columns, r) ==
    IF r > Len(rows) THEN << >>
    ELSE (IF Len(rows[r]) < 2 THEN << >>
          ELSE IF ~_is_merchandise_category(strip(Cell(rows[r], 0))) THEN << >>
          ELSE merch_row(strip(Cell(rows[r], 0)), merch_revenue_by_year(rows[r], year_columns)))
         \o merch_rows(rows, year_columns, r + 1)

merch_with_columns(rows, year_columns) ==
    IF year_columns = << >> THEN << >> ELSE merch_rows(rows, year_columns, 2)

\* merch_table_rows without the keyword test on the table text
merch_table_rows_unfiltered(rows) ==
    IF rows = << >> THEN << >>
    ELSE merch_with_columns(rows, merch_year_columns(rows, 1))

\* the body of `for table in tables` up to the row loop: the rows of one table
\* that reach `if revenue_by_year:`
merch_table_rows(rows) ==
    IF ~ContainsAny(strip(lower(get_text(rows))), merchandise_keywords) THEN << >>
    ELSE IF rows = << >> THEN << >>
    ELSE merch_with_columns(rows, merch_year_columns(rows, 1))

(***************************************************************************)
(* Text patterns of _find_note_sections                                    *)
(***************************************************************************)
\* re.compile(r'note\s+\d+.*' + word, re.IGNORECASE).search(text) is not None,
\* for a text without line breaks
search_note(text, word) ==
    LET t == lower(text) IN
    \E i \in 1..Len(t) : \E j \in (i + 5)..Len(t) :
        /\ SubSeq(t, i, i + 3) = "note"
        /\ \A k \in (i + 4)..(j - 1) : IsSpace(CharAt(t, k))
        /\ IsDigit(CharAt(t, j))
        /\ Contains(SubSeq(t, j + 1, Len(t)), word)

\* re.compile(r'disaggregated\s+revenue', re.IGNORECASE).search(text) is not None
search_disaggregated(text) ==
    LET t == lower(text) IN
    \E i \in 1..Len(t) : \E j \in (i + 14)..(Len(t) - 6) :
        /\ SubSeq(t, i, i + 12) = "disaggregated"
        /\ \A k \in (i + 13)..(j - 1) : IsSpace(CharAt(t, k))
        /\ SubSeq(t, j, j + 6) = "revenue"

\* note_patterns, in order
note_pattern(p, text) ==
    CASE p = 1 -> search_note(text, "revenue")
      [] p = 2 -> search_note(text, "segment")
      [] p = 3 -> search_disaggregated(text)

RECURSIVE Flatten(_)
Flatten(seqs) == IF seqs = << >> THEN << >> ELSE Head(seqs) \o Flatten(Tail(seqs))

\* the number of text nodes among texts that match pattern p
CountMatches(texts, p) == Cardinality({i \in 1..Len(texts) : note_pattern(p, texts[i])})

(***************************************************************************)
(* Documents of the model.  The tables of a document are drawn from        *)
(* TablePool and named by their position in it; everything the strategies  *)
(* read of a table is computed from its rows once, below.                  *)
(***************************************************************************)
MaxTables == 3

DisaggTable == << <<"Disaggregated Revenue", "2023", "2022">>,
                  <<"Product revenue", "$1,234", "(500)">>,
                  <<"Total Revenue Growth Percentage", "5", "6">> >>

DisaggNoYearTable == << <<"Disaggregated revenue by source", "Amount">>,
                        <<"Product revenue", "12">> >>

SegmentTable == << <<"Segment", "United States", "Canada">>,
                   <<"Total revenue", "100", "200">> >>

MerchTableA == << <<"Category", "2023", "">>,
                  <<"Foods", "$", "1,000">> >>

MerchTableB == << <<"Net sales by category">>,
                  <<"", "FY 2023">>,
                  <<"Non-Foods", "2.5 million">> >>

MerchTableC == << <<"Category", "2022">>,
                  <<"Fresh Foods", "300">>,
                  <<"Total net sales", "3k">> >>

TotalOnlyTable == << <<"", "2023">>,
                     <<"Total revenue", "500">> >>

\* a table no strategy's keyword test accepts
UnmatchedTable == << <<"Item", "2023">>,
                     <<"iPad", "700">> >>

TablePool == <<DisaggTable, DisaggNoYearTable, SegmentTable, MerchTableA,
               MerchTableB, MerchTableC, TotalOnlyTable, UnmatchedTable>>

TableIds == 1..Len(TablePool)

PlainHead == "Overview"

NoteHead == "Note 2 - Revenue"

\* str(e) of the exceptions the constructor can raise
ErrorTexts == {"Couldn't find a tree builder with the features you requested: lxml-xml",
               "object of type 'NoneType' has no len()"}

TableSeqs == UNION {[1..n -> TableIds] : n \in 0..MaxTables}

\* A document is <div>PlainHead, tables[1..cut]</div><div>NoteHead, tables[cut+1..]</div>
Docs == UNION {{[tables |-> ts, cut |-> c] : c \in 0..Len(ts)} : ts \in TableSeqs}

\* BeautifulSoup(filing_text, 'lxml-xml') for document d: its containers
Soup(d) ==
    << [head |-> PlainHead, tables |-> SubSeq(d.tables, 1, d.cut)],
       [head |-> NoteHead, tables |-> SubSeq(d.tables, d.cut + 1, Len(d.tables))] >>

\* self.soup.find_all('table')
RECURSIVE find_all_tables(_)
find_all_tables(soup) ==
    IF soup = << >> THEN << >> ELSE Head(soup).tables \o find_all_tables(Tail(soup))

\* table.get_text().lower() of each table of the pool
table_text == [t \in TableIds |-> lower(get_text(TablePool[t]))]

\* self._extract_revenue_from_table(table) of each table of the pool
extracted_generic == [t \in TableIds |-> _extract_revenue_from_table(TablePool[t])]

\* self._extract_segment_revenue_from_table(table) of each table of the pool
extracted_segment == [t \in TableIds |-> _extract_segment_revenue_from_table(TablePool[t])]

\* the rows each table of the pool hands to `if revenue_by_year:` in the merchandise strategy
table_merch_rows == [t \in TableIds |-> merch_table_rows(TablePool[t])]

\* the number of text nodes of each table of the pool that match each note pattern
table_note_matches == [t \in TableIds |-> [p \in 1..3 |-> CountMatches(Flatten(TablePool[t]), p)]]

head_note_matches == [h \in {PlainHead, NoteHead} |-> [p \in 1..3 |-> CountMatches(<<h>>, p)]]

segment_keywords == {"segment", "united states", "canada", "international",
                     "geographic", "region", "market", "operations"}

revenue_keywords == {"revenue", "sales", "net sales", "total revenue", "income"}

\* `'disaggregated revenue' not in table_text` is false, for each table of the pool
is_disaggregated_table == [t \in TableIds |-> Contains(table_text[t], "disaggregated revenue")]

\* both keyword tests of _extract_from_segment_tables pass, for each table of the pool
is_segment_table ==
    [t \in TableIds |-> /\ ContainsAny(strip(table_text[t]), segment_keywords)
                        /\ ContainsAny(strip(table_text[t]), revenue_keywords)]

\* the keyword test of _extract_from_notes_tables passes, for each table of the pool
is_notes_revenue_table ==
    [t \in TableIds |-> ContainsAny(table_text[t], {"revenue", "sales", "net sales"})]

\* the keyword test of _extract_from_merchandise_category_tables passes, for each table of the pool
is_merchandise_table ==
    [t \in TableIds |-> ContainsAny(strip(table_text[t]), merchandise_keywords)]

Dec(sig, exp) == Norm(sig, exp)

\* the dict every strategy starts from
NewRevenueData(method) ==
    [total_revenue |-> None,
     revenue_breakdown |-> EmptyDict,
     revenue_sources |-> << >>,
     extraction_method |-> method,
     confidence_score |-> Num(0)]

\* TakeExtracted without the assignment of the confidence score
TakeExtractedUnscored(data, extracted_data, score) == DictUpdate(data, extracted_data)

\* `revenue_data.update(extracted_data); revenue_data['confidence_score'] = score`
TakeExtracted(data, extracted_data, score) ==
    [DictUpdate(data, extracted_data) EXCEPT !.confidence_score = score]

\* a loop that ends at the first iteration that found something
OrElse(found, rest) == IF found # None THEN found[1] ELSE rest

(***************************************************************************)
(* Strategy 1: _extract_from_disaggregated_revenue_tables                  *)
(***************************************************************************)
\* the body of `for table in tables` for one table: Some(revenue_data) at
\* `break`, None where the loop goes on
disaggregated_table(data, matches, extracted_data) ==
    IF matches /\ extracted_data # None
    THEN Some(TakeExtracted(data, extracted_data[1], Dec(95, -2)))
    ELSE None

RECURSIVE disaggregated_loop(_, _)
disaggregated_loop(data, tables) ==
    IF tables = << >> THEN data
    ELSE OrElse(disaggregated_table(data, is_disaggregated_table[Head(tables)],
                                    extracted_generic[Head(tables)]),
                disaggregated_loop(data, Tail(tables)))

_extract_from_disaggregated_revenue_tables(soup) ==
    disaggregated_loop(NewRevenueData("disaggregated_revenue_tables"), find_all_tables(soup))

(***************************************************************************)
(* Strategy 2: _extract_from_segment_tables                                *)
(***************************************************************************)
\* the body of `for table in tables` for one table: Some(revenue_data) at
\* `break`, None where the loop goes on
segment_table(data, matches, extracted_data) ==
    IF matches /\ extracted_data # None /\ DOMAIN extracted_data[1].revenue_breakdown # {}
    THEN Some(TakeExtracted(data, extracted_data[1], Dec(9, -1)))
    ELSE None

RECURSIVE segment_loop(_, _)
segment_loop(data, tables) ==
    IF tables = << >> THEN data
    ELSE OrElse(segment_table(data, is_segment_table[Head(tables)],
                              extracted_segment[Head(tables)]),
                segment_loop(data, Tail(tables)))

_extract_from_segment_tables(soup) ==
    segment_loop(NewRevenueData("segment_tables"), find_all_tables(soup))

(***************************************************************************)
(* Strategy 3: _extract_from_merchandise_category_tables                   *)
(***************************************************************************)
\* revenue_by_year.get('2023', revenue_by_year.get('2022', revenue_by_year.get('2021')))
\* the value of the row whatever its period
merch_total_of_any_period(revenue_by_year) ==
    Some(revenue_by_year[CHOOSE year \in DOMAIN revenue_by_year : TRUE])

merch_total_of(revenue_by_year) ==
    IF "2023" \in DOMAIN revenue_by_year THEN Some(revenue_by_year["2023"])
    ELSE IF "2022" \in DOMAIN revenue_by_year THEN Some(revenue_by_year["2022"])
    ELSE IF "2021" \in DOMAIN revenue_by_year THEN Some(revenue_by_year["2021"])
    ELSE None

\* the body of `if revenue_by_year:` for one row
merch_record_row(data, row) ==
    IF row.total
    THEN [data EXCEPT !.total_revenue = merch_total_of(row.revenue_by_year)]
    ELSE LET old == IF row.category_name \in DOMAIN data.revenue_breakdown
                    THEN data.revenue_breakdown[row.category_name]
                    ELSE EmptyDict
         IN  [data EXCEPT
                !.revenue_breakdown = DictSet(@, row.category_name, DictUpdate(old, row.revenue_by_year)),
                !.revenue_sources = Append(@, [description |-> row.category_name,
                                               amounts |-> row.revenue_by_year,
                                               category |-> row.category])]

RECURSIVE merch_record_rows(_, _)
merch_record_rows(data, rows) ==
    IF rows = << >> THEN data
    ELSE merch_record_rows(merch_record_row(data, Head(rows)), Tail(rows))

\* merch_loop with a `break` after the first table that contributed rows
RECURSIVE merch_loop_first_match(_, _)
merch_loop_first_match(data, tables) ==
    IF tables = << >> THEN data
    ELSE IF table_merch_rows[Head(tables)] # << >>
    THEN merch_record_rows(data, table_merch_rows[Head(tables)])
    ELSE merch_loop_first_match(data, Tail(tables))

\* for table in tables: every table is processed
RECURSIVE merch_loop(_, _)
merch_loop(data, tables) ==
    IF tables = << >> THEN data
    ELSE merch_loop(merch_record_rows(data, table_merch_rows[Head(tables)]), Tail(tables))

\* Python truthiness of Optional[float]
Truthy(total_revenue) == total_revenue # None /\ total_revenue[1] # Num(0)

\* `if revenue_data['revenue_breakdown'] or revenue_data['total_revenue']: confidence = 0.9`
merch_finish(data) ==
    IF DOMAIN data.revenue_breakdown # {} \/ Truthy(data.total_revenue)
    THEN [data EXCEPT !.confidence_score = Dec(9, -1)]
    ELSE data

_extract_from_merchandise_category_tables(soup) ==
    merch_finish(merch_loop(NewRevenueData("merchandise_category_tables"), find_all_tables(soup)))

(***************************************************************************)
(* Strategy 4: _find_note_sections and _extract_from_notes_tables          *)
(***************************************************************************)
RECURSIVE SumMatches(_, _)
SumMatches(tables, p) ==
    IF tables = << >> THEN 0 ELSE table_note_matches[Head(tables)][p] + SumMatches(Tail(tables), p)

\* the container, once for every text node of it that matches pattern p
MatchesIn(section, p) ==
    [i \in 1..(head_note_matches[section.head][p] + SumMatches(section.tables, p)) |-> section]

\* the containers found for pattern p, in document order (duplicates kept)
RECURSIVE sections_for_pattern(_, _)
sections_for_pattern(soup, p) ==
    IF soup = << >> THEN << >>
    ELSE MatchesIn(Head(soup), p) \o sections_for_pattern(Tail(soup), p)

_find_note_sections(soup) ==
    sections_for_pattern(soup, 1) \o sections_for_pattern(soup, 2) \o sections_for_pattern(soup, 3)

\* the body of `for table in tables` for one table: Some(revenue_data) at
\* `return revenue_data`, None where the loop goes on
notes_table(data, matches, extracted_data) ==
    IF matches /\ extracted_data # None
    THEN Some(TakeExtracted(data, extracted_data[1], Dec(7, -1)))
    ELSE None

FirstFound(found, rest) == IF found # None THEN found ELSE rest

\* notes_tables_loop without the `return` inside the loop: the last table that yields data wins
RECURSIVE notes_tables_loop_last(_, _)
notes_tables_loop_last(data, tables) ==
    IF tables = << >> THEN None
    ELSE FirstFound(notes_tables_loop_last(data, Tail(tables)),
                    notes_table(data, is_notes_revenue_table[Head(tables)],
                                extracted_generic[Head(tables)]))

\* for table in tables (of one section): Some(revenue_data) at the first table that yields data
RECURSIVE notes_tables_loop(_, _)
notes_tables_loop(data, tables) ==
    IF tables = << >> THEN None
    ELSE FirstFound(notes_table(data, is_notes_revenue_table[Head(tables)],
                                extracted_generic[Head(tables)]),
                    notes_tables_loop(data, Tail(tables)))

\* for section in note_sections
RECURSIVE notes_sections_loop(_, _)
notes_sections_loop(data, note_sections) ==
    IF note_sections = << >> THEN data
    ELSE OrElse(notes_tables_loop(data, Head(note_sections).tables),
                notes_sections_loop(data, Tail(note_sections)))

_extract_from_notes_tables(soup) ==
    notes_sections_loop(NewRevenueData("notes_tables"), _find_note_sections(soup))

(***************************************************************************)
(* Filing.get_revenue_breakdown and create_fallback_revenue_data           *)
(***************************************************************************)
\* the starting dict labelled as the except branch of Filing.get_revenue_breakdown labels its own
InitialRevenueDataFailed == NewRevenueData("failed")

\* the dict extract_revenue_breakdown starts from
InitialRevenueData == NewRevenueData(NoMethod)

\* the except branch returning the starting dict of the extractor in place of its own
FailedResultUnlabelled(e) == NewRevenueData(NoMethod)

\* the dict built by the except branch of Filing.get_revenue_breakdown; e is str(e)
FailedResult(e) ==
    [total_revenue |-> None,
     revenue_breakdown |-> EmptyDict,
     revenue_sources |-> << >>,
     extraction_method |-> "failed",
     confidence_score |-> Num(0),
     error |-> e]

create_fallback_revenue_data ==
    [total_revenue |-> None,
     revenue_breakdown |-> EmptyDict,
     revenue_sources |-> << >>,
     extraction_method |-> "fallback",
     confidence_score |-> Num(0),
     error |-> "No revenue breakdown extracted"]

(***************************************************************************)
(* extract_revenue_breakdown as a state machine                            *)
(***************************************************************************)
VARIABLES doc,               \* the filing text handed to the extractor
          pc,                \* "call", "loop", "break", "returned", "handed"
          next_method,       \* position in methods of the next method to try
          revenue_data,      \* local of extract_revenue_breakdown
          invoked,           \* history: the methods called so far, in order
          outcomes,          \* history: how each called method ended
          caught,            \* history: str(e) caught by Filing.get_revenue_breakdown
          result,            \* return value of Filing.get_revenue_breakdown
          revenue_breakdown, \* local of extract_financial_data
          sample_table,      \* a <table> handed to one of the table extractors
          table_out,         \* what that extractor made of it
          sample_text,       \* a cell text handed to _parse_amount
          amount_out,        \* what _parse_amount made of it
          extractor_soup,    \* self.soup of an extractor that is used more than once
          raising,           \* the strategies that raise for its document
          run_results        \* the results of its runs of extract_revenue_breakdown, in order

\* the variables of the table extractors, of _parse_amount and of the repeated runs
table_vars == <<sample_table, table_out>>

parse_vars == <<sample_text, amount_out>>

rerun_vars == <<extractor_soup, raising, run_results>>

VARIABLES sample_label,      \* label: the argument of one _is_revenue_row call
          row_out            \* what that call returned, None before the call

row_vars == <<sample_label, row_out>>

VARIABLES pass_tables,       \* tables: soup.find_all("table") of one merchandise-category pass
          pass_done,         \* the number of tables the loop of that pass has been through
          pass_data,         \* revenue_data of that pass
          pass_returned      \* what the pass returned, None before it returns

pass_vars == <<pass_tables, pass_done, pass_data, pass_returned>>

VARIABLES financials,        \* the rows of the Supabase table "financials", in insertion order
          upload_count,      \* the number of upload_to_supabase calls made so far
          upload_last        \* history: the last call, None before the first

upload_vars == <<financials, upload_count, upload_last>>

VARIABLES company,           \* ticker, target_year and what Stock and its filings give
          company_pc,        \* "start", "loop", "returned" of process_company_filing
          filing_index,      \* position in [target_year, target_year + 1] of the next filing year
          company_returned   \* what process_company_filing returned, None before

company_vars == <<company, company_pc, filing_index, company_returned>>

\* the variables of the parts of the program outside the extraction pipeline,
\* the table extractors, _parse_amount and the repeated runs
other_vars == <<row_vars, pass_vars, upload_vars, company_vars>>

vars == <<doc, pc, next_method, revenue_data, invoked, outcomes, caught, result, revenue_breakdown,
          table_vars, parse_vars, rerun_vars, other_vars>>

\* a part of the model that is not exercised
Unused == "unused"

NoRowCall == sample_label = Unused /\ row_out = Unused

NoPassRun ==
    /\ pass_tables = Unused /\ pass_done = Unused
    /\ pass_data = Unused /\ pass_returned = Unused

NoUpload == financials = Unused /\ upload_count = Unused /\ upload_last = Unused

NoCompany ==
    /\ company = Unused /\ company_pc = Unused
    /\ filing_index = Unused /\ company_returned = Unused

NoOther == NoRowCall /\ NoPassRun /\ NoUpload /\ NoCompany

NoTableCall == sample_table = Unused /\ table_out = Unused

NoParseCall == sample_text = Unused /\ amount_out = Unused

NoRerun == extractor_soup = Unused /\ raising = Unused /\ run_results = Unused

\* methods with the segment strategy tried before the disaggregated one
methods_segment_first == <<"_extract_from_segment_tables",
                           "_extract_from_disaggregated_revenue_tables",
                           "_extract_from_merchandise_category_tables",
                           "_extract_from_notes_tables">>

methods == <<"_extract_from_disaggregated_revenue_tables",
             "_extract_from_segment_tables",
             "_extract_from_merchandise_category_tables",
             "_extract_from_notes_tables">>

\* method() for a bound method of the extractor
CallMethod(method, soup) ==
    CASE method = "_extract_from_disaggregated_revenue_tables" ->
           _extract_from_disaggregated_revenue_tables(soup)
      [] method = "_extract_from_segment_tables" ->
           _extract_from_segment_tables(soup)
      [] method = "_extract_from_merchandise_category_tables" ->
           _extract_from_merchandise_category_tables(soup)
      [] method = "_extract_from_notes_tables" ->
           _extract_from_notes_tables(soup)

\* the acceptance test reduced to `if result:`
AcceptsAnyResult(r) == DOMAIN r # {}

\* an acceptance test that a captured total satisfies as well
AcceptsBreakdownOrTotal(r) == DOMAIN r.revenue_breakdown # {} \/ r.total_revenue # None

\* result and result['revenue_breakdown'] and len(result['revenue_breakdown']) > 0
Accepts(r) == DOMAIN r.revenue_breakdown # {}

Init ==
    /\ doc \in Docs
    /\ pc = "call"
    /\ next_method = 1
    /\ revenue_data = InitialRevenueData
    /\ invoked = << >>
    /\ outcomes = << >>
    /\ caught = None
    /\ result = None
    /\ revenue_breakdown = None
    /\ NoTableCall
    /\ NoParseCall
    /\ NoRerun
    /\ NoOther

\* Filing.get_revenue_breakdown: the extractor is constructed and
\* extract_revenue_breakdown is entered
Construct ==
    /\ pc = "call"
    /\ pc' = "loop"
    /\ UNCHANGED <<doc, next_method, revenue_data, invoked, outcomes, caught, result, revenue_breakdown, table_vars, parse_vars, rerun_vars, other_vars>>

\* Filing.get_revenue_breakdown: the constructor raises; the except branch returns
ConstructFails ==
    /\ pc = "call"
    /\ \E e \in ErrorTexts :
         /\ caught' = Some(e)
         /\ result' = Some(FailedResult(e))
    /\ pc' = "returned"
    /\ UNCHANGED <<doc, next_method, revenue_data, invoked, outcomes, revenue_breakdown, table_vars, parse_vars, rerun_vars, other_vars>>

\* one iteration of `for method in methods` in which method() returns
StrategyReturns ==
    /\ pc = "loop"
    /\ next_method <= Len(methods)
    /\ IF Accepts(CallMethod(methods[next_method], Soup(doc)))
       THEN /\ revenue_data' = CallMethod(methods[next_method], Soup(doc))
            /\ outcomes' = Append(outcomes, "data")
            /\ pc' = "break"
       ELSE /\ revenue_data' = revenue_data
            /\ outcomes' = Append(outcomes, "empty")
            /\ pc' = pc
    /\ invoked' = Append(invoked, methods[next_method])
    /\ next_method' = next_method + 1
    /\ UNCHANGED <<doc, caught, result, revenue_breakdown, table_vars, parse_vars, rerun_vars, other_vars>>

\* StrategyRaises with `break` in place of `continue`
StrategyRaisesBreaks ==
    /\ pc = "loop"
    /\ next_method <= Len(methods)
    /\ invoked' = Append(invoked, methods[next_method])
    /\ outcomes' = Append(outcomes, "raised")
    /\ next_method' = next_method + 1
    /\ pc' = "break"
    /\ UNCHANGED <<doc, revenue_data, caught, result, revenue_breakdown, table_vars, parse_vars, rerun_vars, other_vars>>

\* one iteration of `for method in methods` in which method() raises:
\* `except Exception: continue`
StrategyRaises ==
    /\ pc = "loop"
    /\ next_method <= Len(methods)
    /\ invoked' = Append(invoked, methods[next_method])
    /\ outcomes' = Append(outcomes, "raised")
    /\ next_method' = next_method + 1
    /\ UNCHANGED <<doc, pc, revenue_data, caught, result, revenue_breakdown, table_vars, parse_vars, rerun_vars, other_vars>>

\* return revenue_data, passed on by Filing.get_revenue_breakdown
Return ==
    /\ \/ pc = "break"
       \/ pc = "loop" /\ next_method > Len(methods)
    /\ result' = Some(revenue_data)
    /\ pc' = "returned"
    /\ UNCHANGED <<doc, next_method, revenue_data, invoked, outcomes, caught, revenue_breakdown, table_vars, parse_vars, rerun_vars, other_vars>>

\* extract_financial_data: revenue_breakdown = filing.get_revenue_breakdown(),
\* replaced by the fallback when it is None
HandOver ==
    /\ pc = "returned"
    /\ revenue_breakdown' = IF result = None THEN Some(create_fallback_revenue_data) ELSE result
    /\ pc' = "handed"
    /\ UNCHANGED <<doc, next_method, revenue_data, invoked, outcomes, caught, result, table_vars, parse_vars, rerun_vars, other_vars>>

Next ==
    \/ Construct
    \/ ConstructFails
    \/ StrategyReturns
    \/ StrategyRaises
    \/ Return
    \/ HandOver

Spec == Init /\ [][Next]_vars

(***************************************************************************)
(* Properties.  C1..C10 name the claims of the specification of the        *)
(* extraction pipeline.                                                    *)
(***************************************************************************)
\* get_revenue_breakdown has returned
Returned == pc \in {"returned", "handed"}

\* ... and what it returned is the return value of extract_revenue_breakdown
FromPipeline == Returned /\ caught = None

\* the positions of the strategies whose call raised
Raised == {k \in 1..Len(outcomes) : outcomes[k] = "raised"}

\* a strategy handed back a non-empty breakdown
SomeData == \E k \in 1..Len(outcomes) : outcomes[k] = "data"

\* the order of the strategies the pipeline is to follow
StrategyOrder == <<"_extract_from_disaggregated_revenue_tables",
                   "_extract_from_segment_tables",
                   "_extract_from_merchandise_category_tables",
                   "_extract_from_notes_tables">>

\* what the k-th strategy of that order returns for the document
StrategyResult(k) ==
    CASE k = 1 -> _extract_from_disaggregated_revenue_tables(Soup(doc))
      [] k = 2 -> _extract_from_segment_tables(Soup(doc))
      [] k = 3 -> _extract_from_merchandise_category_tables(Soup(doc))
      [] k = 4 -> _extract_from_notes_tables(Soup(doc))

NonEmpty(r) == DOMAIN r.revenue_breakdown # {}

\* the method label and the confidence of the k-th strategy of that order
StrategyPair(k) ==
    CASE k = 1 -> <<"disaggregated_revenue_tables", [sig |-> 95, exp |-> -2]>>
      [] k = 2 -> <<"segment_tables", [sig |-> 9, exp |-> -1]>>
      [] k = 3 -> <<"merchandise_category_tables", [sig |-> 9, exp |-> -1]>>
      [] k = 4 -> <<"notes_tables", [sig |-> 7, exp |-> -1]>>

Zero == [sig |-> 0, exp |-> 0]

\* C1: extract_revenue_breakdown calls the strategies in the order disaggregated,
\* segment, merchandise, notes; a strategy is followed by the next one only when
\* it did not hand back a non-empty breakdown (it returned an empty one, or
\* raised, which the loop treats alike); the first strategy that returns a
\* non-empty breakdown ends the loop, its result is what is returned, and no
\* later strategy is called; without such a strategy all four are called.
C1_FixedOrderFirstNonEmptyWins ==
    /\ Len(outcomes) = Len(invoked)
    /\ \A k \in 1..Len(invoked) :
         /\ invoked[k] = StrategyOrder[k]
         /\ outcomes[k] # "raised" => ((outcomes[k] = "data") <=> NonEmpty(StrategyResult(k)))
         /\ k < Len(invoked) => outcomes[k] # "data"
         /\ outcomes[k] = "data" => pc # "loop" /\ revenue_data = StrategyResult(k)
    /\ FromPipeline /\ SomeData => result = Some(StrategyResult(Len(invoked)))
    /\ FromPipeline /\ ~SomeData => Len(invoked) = Len(StrategyOrder)

\* the second strategy ended the pipeline after the first returned an empty breakdown
C1_Witness ==
    /\ FromPipeline
    /\ outcomes = <<"empty", "data">>
    /\ result = Some(StrategyResult(2))

\* C2: in every result returned by extract_revenue_breakdown, a non-empty
\* breakdown comes with the method label and the confidence of the strategy that
\* filled it - (disaggregated_revenue_tables, 0.95), (segment_tables, 0.9),
\* (merchandise_category_tables, 0.9) or (notes_tables, 0.7), whatever the table -
\* and an empty breakdown comes with confidence 0.0.
C2_MethodAndConfidenceConsistent ==
    FromPipeline =>
        /\ NonEmpty(result[1]) =>
             <<result[1].extraction_method, result[1].confidence_score>> = StrategyPair(Len(invoked))
        /\ ~NonEmpty(result[1]) => result[1].confidence_score = Zero

\* the notes strategy filled the breakdown, after the merchandise strategy
\* returned a total but no breakdown
C2_Witness ==
    /\ FromPipeline
    /\ NonEmpty(result[1])
    /\ result[1].extraction_method = "notes_tables"
    /\ outcomes[3] = "empty"
    /\ StrategyResult(3).total_revenue # None

\* C3: a strategy that raises is treated as one that returned an empty
\* breakdown: the loop goes on with the next strategy, nothing is propagated to
\* the caller, and the result is the one the pipeline gives when the raising
\* strategies are taken to have returned an empty breakdown.
RECURSIVE PipelineTreatingAsEmpty(_, _)
PipelineTreatingAsEmpty(S, k) ==
    IF k > Len(StrategyOrder) THEN NewRevenueData(NoMethod)
    ELSE IF k \notin S /\ NonEmpty(StrategyResult(k)) THEN StrategyResult(k)
    ELSE PipelineTreatingAsEmpty(S, k + 1)

C3_RaisingStrategyCountsAsEmpty ==
    /\ \A k \in Raised :
         k < Len(StrategyOrder) => (pc = "loop" /\ next_method = k + 1) \/ Len(invoked) > k
    /\ Raised # {} /\ Returned =>
         /\ caught = None
         /\ result = Some(PipelineTreatingAsEmpty(Raised, 1))

\* the first strategy raised where it would have returned data, and a later
\* strategy supplied the result
C3_Witness ==
    /\ FromPipeline
    /\ outcomes[1] = "raised"
    /\ NonEmpty(StrategyResult(1))
    /\ NonEmpty(result[1])

\* no table of the document passes the keyword test of any strategy
NoTableMatches ==
    \A i \in 1..Len(doc.tables) :
        /\ ~is_disaggregated_table[doc.tables[i]]
        /\ ~is_segment_table[doc.tables[i]]
        /\ ~is_merchandise_table[doc.tables[i]]
        /\ ~is_notes_revenue_table[doc.tables[i]]

\* C4: for a document none of whose tables matches any of the four strategies,
\* extract_revenue_breakdown returns an empty revenue_breakdown,
\* total_revenue None and confidence 0.0.
C4_NoMatchGivesEmptyResult ==
    FromPipeline /\ NoTableMatches =>
        /\ result[1].revenue_breakdown = EmptyDict
        /\ result[1].total_revenue = None
        /\ result[1].confidence_score = Zero

\* a document with tables, none of them matching, went through all four strategies
C4_Witness ==
    /\ FromPipeline
    /\ NoTableMatches
    /\ Len(doc.tables) >= 2
    /\ outcomes = <<"empty", "empty", "empty", "empty">>

\* C5: Filing.get_revenue_breakdown always hands a result to its caller; when
\* the extractor raised, the result is labelled 'failed', has confidence 0.0, an
\* empty revenue_breakdown, empty revenue_sources, total_revenue None, and the
\* description of the exception under 'error'.
C5_FailureBecomesFailedResult ==
    /\ Returned => result # None
    /\ Returned /\ caught # None =>
         result = Some([total_revenue |-> None,
                        revenue_breakdown |-> EmptyDict,
                        revenue_sources |-> << >>,
                        extraction_method |-> "failed",
                        confidence_score |-> Zero,
                        error |-> caught[1]])

\* the constructor raised and the caller holds the failed result
C5_Witness ==
    /\ pc = "handed"
    /\ caught = Some("object of type 'NoneType' has no len()")
    /\ revenue_breakdown[1].error = "object of type 'NoneType' has no len()"

\* all four strategies were tried and none handed back a non-empty breakdown
Exhausted == FromPipeline /\ ~SomeData

\* C6: the two terminal outcomes with confidence 0.0 are told apart: the result
\* of a pipeline that exhausted its strategies is not labelled 'failed' and has
\* no 'error' field; the result built by the exception handler of
\* Filing.get_revenue_breakdown is labelled 'failed' and has an 'error' field.
C6_ExhaustedAndFailedDistinct ==
    /\ Exhausted =>
         /\ result[1].extraction_method # "failed"
         /\ "error" \notin DOMAIN result[1]
    /\ Returned /\ caught # None =>
         /\ result[1].extraction_method = "failed"
         /\ "error" \in DOMAIN result[1]

\* a pipeline that exhausted its four strategies returned with confidence 0.0
C6_Witness ==
    /\ Exhausted
    /\ Len(invoked) = 4
    /\ result[1].confidence_score = Zero
    /\ Len(doc.tables) > 0

ExtractionMethods == {"disaggregated_revenue_tables", "segment_tables",
                      "merchandise_category_tables", "notes_tables", "failed", "fallback"}

\* C7: in every result handed to extract_financial_data, extraction_method is
\* one of disaggregated_revenue_tables, segment_tables,
\* merchandise_category_tables, notes_tables, failed, fallback - also when every
\* strategy was exhausted without a match.
C7_MethodInEnum ==
    pc = "handed" => revenue_breakdown[1].extraction_method \in ExtractionMethods

\* a mapping from period labels to amounts
IsPeriodMapping(v) == ~IsAmount(v) /\ \A period \in DOMAIN v : IsAmount(v[period])

\* C8: every value of the revenue_breakdown of a returned result is a mapping
\* from period label to amount and never a bare amount, whichever strategy
\* filled it (generic table extractor, segment extractor, merchandise strategy).
C8_BreakdownValuesArePeriodMappings ==
    FromPipeline =>
        \A key \in DOMAIN result[1].revenue_breakdown :
            IsPeriodMapping(result[1].revenue_breakdown[key])

\* the document has a table that matches the disaggregated-revenue keyword
HasDisaggregatedTable == \E i \in 1..Len(doc.tables) : is_disaggregated_table[doc.tables[i]]

\* ... and one of them yields data under the generic table extractor
HasYieldingDisaggregatedTable ==
    \E i \in 1..Len(doc.tables) :
        /\ is_disaggregated_table[doc.tables[i]]
        /\ extracted_generic[doc.tables[i]] # None

\* the tables of the document that match the segment keywords and not the
\* disaggregated-revenue keyword
SegmentOnlyTables ==
    {doc.tables[i] : i \in {j \in 1..Len(doc.tables) :
                              /\ is_segment_table[doc.tables[j]]
                              /\ ~is_disaggregated_table[doc.tables[j]]}}

Elements(seq) == {seq[i] : i \in 1..Len(seq)}

\* nothing the segment extractor reads from a segment-only table is in r
SegmentTablesIgnored(r) ==
    \A t \in SegmentOnlyTables :
        extracted_segment[t] # None =>
            /\ DOMAIN r.revenue_breakdown \cap DOMAIN extracted_segment[t][1].revenue_breakdown = {}
            /\ Elements(r.revenue_sources) \cap Elements(extracted_segment[t][1].revenue_sources) = {}

DisaggregatedWins ==
    /\ result[1].extraction_method = "disaggregated_revenue_tables"
    /\ result[1].confidence_score = [sig |-> 95, exp |-> -2]
    /\ SegmentTablesIgnored(result[1])

\* C9 as stated: for a document with a table matching the disaggregated-revenue
\* keyword and a table matching only segment keywords, the result (no strategy
\* having raised) is labelled disaggregated_revenue_tables with confidence 0.95
\* and holds nothing of the segment table.
C9_DisaggregatedKeywordWins ==
    FromPipeline /\ Raised = {} /\ HasDisaggregatedTable /\ SegmentOnlyTables # {} =>
        DisaggregatedWins

\* C9 amended: the same, for a document one of whose tables matching the
\* disaggregated-revenue keyword yields at least one entry under
\* _extract_revenue_from_table, the disaggregated strategy having returned.
C9_YieldingDisaggregatedTableWins ==
    FromPipeline /\ outcomes[1] # "raised" /\ HasYieldingDisaggregatedTable /\ SegmentOnlyTables # {} =>
        DisaggregatedWins

\* a yielding disaggregated table placed after a segment table that has data
C9_Witness ==
    /\ FromPipeline
    /\ outcomes = <<"data">>
    /\ HasYieldingDisaggregatedTable
    /\ \E t \in SegmentOnlyTables : extracted_segment[t] # None
    /\ is_segment_table[doc.tables[1]]
    /\ DisaggregatedWins

\* the categories the merchandise strategy reads from table t of the pool
MerchCategories(t) ==
    {table_merch_rows[t][i].category_name :
        i \in {j \in 1..Len(table_merch_rows[t]) : ~table_merch_rows[t][j].total}}

\* C10: the merchandise strategy aggregates over all matching tables of the
\* document: the revenue_breakdown of its result holds the categories of every
\* table, not only those of the first matching one.
C10_MerchandiseAggregatesAllTables ==
    FromPipeline /\ result[1].extraction_method = "merchandise_category_tables" =>
        \A i \in 1..Len(doc.tables) :
            MerchCategories(doc.tables[i]) \subseteq DOMAIN result[1].revenue_breakdown

\* three merchandise tables with one category each, all three in the result
C10_Witness ==
    /\ FromPipeline
    /\ Len(doc.tables) = 3
    /\ \A i \in 1..3 : Cardinality(MerchCategories(doc.tables[i])) = 1
    /\ Cardinality(DOMAIN result[1].revenue_breakdown) = 3
    /\ DOMAIN result[1].revenue_breakdown = {"Foods", "Non-Foods", "Fresh Foods"}
    /\ result[1].extraction_method = "merchandise_category_tables"

(***************************************************************************)
(* Calls of the table extractors on one table.  The generic and the        *)
(* segment extractor are methods; the merchandise extraction is the body   *)
(* of strategy 3, run here on a document whose only table is the sample.   *)
(***************************************************************************)
pipeline_vars == <<doc, pc, next_method, revenue_data, invoked, outcomes, caught, result,
                   revenue_breakdown>>

NoPipeline ==
    /\ doc = Unused /\ pc = Unused /\ next_method = Unused
    /\ revenue_data = Unused /\ invoked = Unused /\ outcomes = Unused
    /\ caught = Unused /\ result = Unused /\ revenue_breakdown = Unused

MaxRows == 3

\* rows the sample tables are built from: a title row, a header that repeats a
\* year, a header with a year outside 2021..2023 and a segment column, a row
\* with a currency-symbol spacer cell, a growth-percentage row, a category row
\* and a total row
RowPool ==
    { <<"Net sales by category">>,
      <<"Category", "2023", "2023">>,
      <<"Segment", "2024", "Canada 2022">>,
      <<"Product revenue", "$", "1,000">>,
      <<"Total Revenue Growth Percentage", "5", "6">>,
      <<"Foods", "100", "90">>,
      <<"Total net sales", "3,000", "2,000">> }

MaxTitleRows == 5

\* k title rows
TitleRows(k) == [i \in 1..k |-> <<"Net sales by category">>]

\* tables whose year header comes after 0 to MaxTitleRows title rows, so that it
\* is inside or outside rows[:5], followed by one data row
TallTables ==
    {TitleRows(k) \o << <<"Category", "2023", "2022">>, data >> :
        k \in 0..MaxTitleRows,
        data \in {<<"Foods", "100", "90">>, <<"Total net sales", "3,000", "2,000">>}}

\* headers with year columns at indices 1 and 2, or at index 2 only
RaggedHeaders == {<<"Category", "2023", "2022">>, <<"Category", "", "2023">>}

\* data rows with fewer cells than the header, and one with all of them
RaggedRows ==
    {<<"Services revenue", "400">>, <<"Product sales", "$">>,
     <<"Product revenue", "500", "600">>}

\* tables whose data rows are shorter than their header row
RaggedTables ==
    {<<h>> \o data : h \in RaggedHeaders, data \in [1..1 -> RaggedRows] \cup [1..2 -> RaggedRows]}

\* the <tr> rows of the tables handed to the extractors
SampleTables ==
    UNION {[1..n -> RowPool] : n \in 1..MaxRows} \cup TallTables \cup RaggedTables

\* strategy 3 on a document whose only table is `table`
merchandise_of_table(table) ==
    merch_finish(merch_record_rows(NewRevenueData("merchandise_category_tables"),
                                   merch_table_rows(table)))

TableInit ==
    /\ sample_table \in SampleTables
    /\ table_out = None
    /\ NoPipeline /\ NoParseCall /\ NoRerun /\ NoOther

ExtractGeneric ==
    /\ table_out' = Some([extractor |-> "generic",
                          returned |-> _extract_revenue_from_table(sample_table)])
    /\ UNCHANGED <<sample_table, pipeline_vars, parse_vars, rerun_vars, other_vars>>

ExtractSegment ==
    /\ table_out' = Some([extractor |-> "segment",
                          returned |-> _extract_segment_revenue_from_table(sample_table)])
    /\ UNCHANGED <<sample_table, pipeline_vars, parse_vars, rerun_vars, other_vars>>

ExtractMerchandise ==
    /\ table_out' = Some([extractor |-> "merchandise",
                          returned |-> Some(merchandise_of_table(sample_table))])
    /\ UNCHANGED <<sample_table, pipeline_vars, parse_vars, rerun_vars, other_vars>>

TableNext == ExtractGeneric \/ ExtractSegment \/ ExtractMerchandise

TableSpec == TableInit /\ [][TableNext]_vars

\* the strategies that return inside their loop over tables
ReturningStrategies == {1, 2, 4}

\* the tables of a sequence of containers, container by container
RECURSIVE TablesOf(_)
TablesOf(sections) ==
    IF sections = << >> THEN << >> ELSE Head(sections).tables \o TablesOf(Tail(sections))

\* the tables strategy k looks at, in the order in which it does
ExaminedBy(k) ==
    IF k = 4 THEN TablesOf(_find_note_sections(Soup(doc))) ELSE find_all_tables(Soup(doc))

\* table t passes the keyword test of strategy k
PassesClassifier(k, t) ==
    CASE k = 1 -> is_disaggregated_table[t]
      [] k = 2 -> is_segment_table[t]
      [] k = 4 -> is_notes_revenue_table[t]

\* ... and the extractor of strategy k reads data from it
YieldsData(k, t) ==
    /\ PassesClassifier(k, t)
    /\ IF k = 2 THEN extracted_segment[t] # None ELSE extracted_generic[t] # None

\* tables up to and including the first one of Hits
UpToFirst(tables, Hits) ==
    IF \E i \in 1..Len(tables) : tables[i] \in Hits
    THEN SubSeq(tables, 1, CHOOSE i \in 1..Len(tables) :
                              /\ tables[i] \in Hits
                              /\ \A j \in 1..(i - 1) : tables[j] \notin Hits)
    ELSE tables

\* the loop of strategy k run over a sequence of tables
StrategyOnTables(k, tables) ==
    CASE k = 1 -> disaggregated_loop(NewRevenueData("disaggregated_revenue_tables"), tables)
      [] k = 2 -> segment_loop(NewRevenueData("segment_tables"), tables)
      [] k = 4 -> OrElse(notes_tables_loop(NewRevenueData("notes_tables"), tables),
                         NewRevenueData("notes_tables"))

\* C11 as stated: the disaggregated, segment and notes strategies stop at the
\* first table that passes their keyword test: the data such a strategy hands
\* back is what it reads from the tables up to that one, no later table
\* contributes.
C11_StopsAtFirstMatchingTable ==
    \A k \in ReturningStrategies :
        k <= Len(outcomes) /\ outcomes[k] = "data" =>
            revenue_data = StrategyOnTables(k, UpToFirst(ExaminedBy(k),
                                                         {t \in TableIds : PassesClassifier(k, t)}))

\* C11 amended: these strategies stop at the first table that passes the keyword
\* test and from which their extractor reads data; tables that pass the test
\* and yield nothing are skipped, and no table after the first yielding one
\* contributes.
C11_StopsAtFirstYieldingTable ==
    \A k \in ReturningStrategies :
        k <= Len(outcomes) /\ outcomes[k] = "data" =>
            revenue_data = StrategyOnTables(k, UpToFirst(ExaminedBy(k),
                                                         {t \in TableIds : YieldsData(k, t)}))

\* the notes strategy returned the data of the first of two tables that yield different data
C11_Witness ==
    /\ Len(outcomes) = 4
    /\ outcomes[4] = "data"
    /\ \E i, j \in 1..Len(ExaminedBy(4)) :
         /\ i < j
         /\ YieldsData(4, ExaminedBy(4)[i])
         /\ YieldsData(4, ExaminedBy(4)[j])
         /\ \A h \in 1..(i - 1) : ~YieldsData(4, ExaminedBy(4)[h])
         /\ extracted_generic[ExaminedBy(4)[i]] # extracted_generic[ExaminedBy(4)[j]]
         /\ revenue_data.revenue_breakdown = extracted_generic[ExaminedBy(4)[i]][1].revenue_breakdown

(***************************************************************************)
(* Calls of _parse_amount on one text.  The texts are amounts written in   *)
(* the forms the parser normalises, sentinel tokens and texts that are no  *)
(* number.                                                                 *)
(***************************************************************************)
Blank == {"", " "}

NumberTexts == <<"500", "1,234", "2.5", "0">>
NumberValues == <<Num(500), Num(1234), Dec(25, -1), Num(0)>>

UnitTexts == <<"", " million", "m", " thousand", "k">>
UnitPowers == <<0, 6, 6, 3, 3>>

\* an amount as it is written: blanks around it, a currency symbol, parentheses
\* for a negative value, thousands separators, a magnitude word
AmountForms ==
    [pre : Blank, cur : {"", "$"}, paren : BOOLEAN, number : DOMAIN NumberTexts,
     unit : DOMAIN UnitTexts, post : Blank]

TextOf(f) ==
    f.pre \o f.cur
      \o (IF f.paren THEN "(" \o NumberTexts[f.number] \o ")" ELSE NumberTexts[f.number])
      \o UnitTexts[f.unit] \o f.post

\* the number the written amount denotes
ValueOf(f) ==
    Scale10(IF f.paren THEN Neg(NumberValues[f.number]) ELSE NumberValues[f.number],
            UnitPowers[f.unit])

\* sentinel tokens, N/A in every letter case, with and without blanks around them
SentinelTexts ==
    {pre \o token \o post : pre \in Blank, post \in Blank,
                            token \in {EmDash, "-", "", "N/A", "n/a", "N/a", "n/A"}}

\* texts that are no number after normalisation
JunkTexts == {"abc", "1.2.3", "--5", "$", "()", "5x", "1 2", "5-", "-", "+", "."}

\* magnitude words in several letter cases, with the power of ten they stand for
MagnitudeSpellings ==
    <<"m", "M", " million", " Million", " MILLION", "k", "K", " thousand", " Thousand",
      " THOUSAND">>
MagnitudePowers == <<6, 6, 6, 6, 6, 3, 3, 3, 3, 3>>

MagnitudeNumbers == <<"1.5", "3", "2">>
MagnitudeValues == <<Dec(15, -1), Num(3), Num(2)>>

\* a number followed by a magnitude word
MagnitudeForms == [number : DOMAIN MagnitudeNumbers, word : DOMAIN MagnitudeSpellings]

MagnitudeText(f) == MagnitudeNumbers[f.number] \o MagnitudeSpellings[f.word]

\* a magnitude word with nothing, or a sentinel, left of it
BareMagnitudeTexts ==
    {pre \o MagnitudeSpellings[w] : pre \in {"", "-", "$", " "}, w \in DOMAIN MagnitudeSpellings}

MagnitudeTexts == {MagnitudeText(f) : f \in MagnitudeForms} \cup BareMagnitudeTexts

AmountTexts ==
    {TextOf(f) : f \in AmountForms} \cup SentinelTexts \cup JunkTexts \cup MagnitudeTexts

ParseInit ==
    /\ sample_text \in AmountTexts
    /\ amount_out = None
    /\ NoPipeline /\ NoTableCall /\ NoRerun /\ NoOther

\* amount = self._parse_amount(sample_text)
Parse ==
    /\ amount_out' = Some(_parse_amount(sample_text))
    /\ UNCHANGED <<sample_text, pipeline_vars, table_vars, rerun_vars, other_vars>>

ParseNext == Parse

ParseSpec == ParseInit /\ [][ParseNext]_vars

(***************************************************************************)
(* Repeated calls of extract_revenue_breakdown on one extractor.  Which    *)
(* strategies raise is a property of the document, the same in every run.  *)
(***************************************************************************)
MaxRuns == 2
MaxRerunTables == 2

\* `if result and result['revenue_breakdown'] and ...: revenue_data = result; break`
FirstAccepted(r, rest) == IF Accepts(r) THEN r ELSE rest

\* for method in methods, from the i-th on: the revenue_data returned
RECURSIVE methods_loop(_, _, _, _)
methods_loop(data, soup, raises, i) ==
    IF i > Len(methods) THEN data
    ELSE IF i \in raises THEN methods_loop(data, soup, raises, i + 1)
    ELSE FirstAccepted(CallMethod(methods[i], soup), methods_loop(data, soup, raises, i + 1))

\* RevenueBreakdownExtractor.extract_revenue_breakdown, start to return
extract_revenue_breakdown(soup, raises) == methods_loop(InitialRevenueData, soup, raises, 1)

RerunInit ==
    /\ extractor_soup \in {Soup(d) : d \in {e \in Docs : Len(e.tables) <= MaxRerunTables}}
    /\ raising \in SUBSET (1..Len(methods))
    /\ run_results = << >>
    /\ NoPipeline /\ NoTableCall /\ NoParseCall /\ NoOther

\* a run that takes the tables out of self.soup as it reads them
RunConsumingSoup ==
    /\ Len(run_results) < MaxRuns
    /\ run_results' = Append(run_results, extract_revenue_breakdown(extractor_soup, raising))
    /\ extractor_soup' = Soup([tables |-> << >>, cut |-> 0])
    /\ UNCHANGED <<raising, pipeline_vars, table_vars, parse_vars, other_vars>>

\* extractor.extract_revenue_breakdown(): self.soup is read, never assigned
Run ==
    /\ Len(run_results) < MaxRuns
    /\ run_results' = Append(run_results, extract_revenue_breakdown(extractor_soup, raising))
    /\ UNCHANGED <<extractor_soup, raising, pipeline_vars, table_vars, parse_vars, other_vars>>

RerunNext == Run

RerunSpec == RerunInit /\ [][RerunNext]_vars

(***************************************************************************)
(* Calls of _is_revenue_row on one label.  A label is built from a word    *)
(* that is no term of either list, optionally a revenue-indicating term    *)
(* and optionally an exclusion term, in either order and in mixed case.    *)
(***************************************************************************)
IndicatorSpellings ==
    <<"total revenue", "Net Sales", "TOTAL NET SALES", "Revenue", "sales",
      "Total sales", "NET REVENUE", "Total Revenues", "net revenues">>

ExclusionSpellings ==
    <<"cost", "Expense", "INCOME", "profit", "Margin", "percentage", "RATIO",
      "growth", "Change", "variance">>

\* indicator and exclusion are positions in the two lists, 0 for none
LabelForms ==
    [indicator : 0..Len(IndicatorSpellings), exclusion : 0..Len(ExclusionSpellings),
     exclusion_first : BOOLEAN]

LabelPart(spellings, i) == IF i = 0 THEN "" ELSE " " \o spellings[i]

LabelText(f) ==
    IF f.exclusion_first
    THEN "Item" \o LabelPart(ExclusionSpellings, f.exclusion)
                \o LabelPart(IndicatorSpellings, f.indicator)
    ELSE "Item" \o LabelPart(IndicatorSpellings, f.indicator)
                \o LabelPart(ExclusionSpellings, f.exclusion)

SampleLabels == {LabelText(f) : f \in LabelForms}

RowInit ==
    /\ sample_label \in SampleLabels
    /\ row_out = None
    /\ NoPipeline /\ NoTableCall /\ NoParseCall /\ NoRerun /\ NoPassRun /\ NoUpload /\ NoCompany

\* self._is_revenue_row(label)
IsRevenueRow ==
    /\ row_out' = Some(_is_revenue_row(sample_label))
    /\ UNCHANGED <<sample_label, pipeline_vars, table_vars, parse_vars, rerun_vars, pass_vars, upload_vars, company_vars>>

RowNext == IsRevenueRow

RowSpec == RowInit /\ [][RowNext]_vars

(***************************************************************************)
(* The merchandise-category pass, table by table                           *)
(***************************************************************************)
MaxPassTables == 3

\* tables with a total row for 2022, 2024, 2023 and 2021, a table without a
\* year header and a table the keyword test of the pass rejects
PassPool ==
    { MerchTableC,
      << <<"Category", "2024">>, <<"Total net sales", "9,000">> >>,
      << <<"Category", "2023">>, <<"Foods", "100">>, <<"Total sales", "700">> >>,
      << <<"Category", "2021">>, <<"Consolidated revenue", "50">> >>,
      << <<"Net sales by category">>, <<"Foods", "100">> >>,
      UnmatchedTable }

PassInit ==
    /\ pass_tables \in UNION {[1..n -> PassPool] : n \in 0..MaxPassTables}
    /\ pass_done = 0
    /\ pass_data = NewRevenueData("merchandise_category_tables")
    /\ pass_returned = None
    /\ NoPipeline /\ NoTableCall /\ NoParseCall /\ NoRerun /\ NoRowCall /\ NoUpload /\ NoCompany

\* one iteration of `for table in tables`
PassTable ==
    /\ pass_returned = None
    /\ pass_done < Len(pass_tables)
    /\ pass_data' = merch_record_rows(pass_data, merch_table_rows(pass_tables[pass_done + 1]))
    /\ pass_done' = pass_done + 1
    /\ UNCHANGED <<pass_tables, pass_returned, pipeline_vars, table_vars, parse_vars,
                   rerun_vars, row_vars, upload_vars, company_vars>>

\* the end of the pass: the confidence score and `return revenue_data`
PassReturn ==
    /\ pass_returned = None
    /\ pass_done = Len(pass_tables)
    /\ pass_returned' = Some(merch_finish(pass_data))
    /\ UNCHANGED <<pass_tables, pass_done, pass_data, pipeline_vars, table_vars, parse_vars,
                   rerun_vars, row_vars, upload_vars, company_vars>>

PassNext == PassTable \/ PassReturn

PassSpec == PassInit /\ [][PassNext]_vars

(***************************************************************************)
(* uploader.upload_to_supabase and the table "financials"                  *)
(***************************************************************************)
\* the Python types json.dumps encodes
JsonTypes == {"float", "int", "str", "bool", "NoneType"}

\* an exception of the given class leaving a block
Raised_(class) == <<class, "raised">>

IsException(outcome) == Len(outcome) = 2

\* json.dumps(report) of a list of report items: TypeError for an item whose
\* value json cannot encode
json_dumps_report(report) ==
    IF \A i \in 1..Len(report) : report[i].type \in JsonTypes
    THEN Some(<<"json", report>>)
    ELSE Raised_("TypeError")

\* json.dumps(revenue_breakdown): TypeError for an amount json cannot encode
json_dumps_breakdown(rb) ==
    IF rb = None THEN Some(<<"json", "null">>)
    ELSE IF \A key \in DOMAIN rb[1].revenue_breakdown :
              \A period \in DOMAIN rb[1].revenue_breakdown[key] :
                 "type" \notin DOMAIN rb[1].revenue_breakdown[key][period]
    THEN Some(<<"json", rb[1]>>)
    ELSE Raised_("TypeError")

\* Python truthiness of an optional str and of an optional dict
TruthyStr(t) == t # None /\ t[1] # ""

TruthyDict(d) == d # None /\ DOMAIN d[1] # {}

\* all([ticker, year is not None, quarter is not None, income, balance, cash])
all_required(a) ==
    /\ TruthyStr(a.ticker) /\ a.year # None /\ a.quarter # None
    /\ a.income # << >> /\ a.balance # << >> /\ a.cash # << >>

\* supabase.table("financials").select("id").eq(...).eq(...).eq(...).execute().data
select_existing(rows, a) ==
    SelectSeq(rows, LAMBDA row : /\ row.ticker = a.ticker[1]
                                 /\ row.year = a.year[1]
                                 /\ row.quarter = a.quarter[1])

\* the test serialization: the four json.dumps calls of the inner try raise none
serializes(a) ==
    /\ ~IsException(json_dumps_report(a.income))
    /\ ~IsException(json_dumps_report(a.balance))
    /\ ~IsException(json_dumps_report(a.cash))
    /\ (TruthyDict(a.revenue_breakdown) => ~IsException(json_dumps_breakdown(a.revenue_breakdown)))

\* rb = revenue_breakdown.get("revenue_breakdown") ...: the field is the JSON
\* text of the whole dict when rb is a non-empty dict, None otherwise
payload_breakdown(a) ==
    IF TruthyDict(a.revenue_breakdown) /\ DOMAIN a.revenue_breakdown[1].revenue_breakdown # {}
    THEN json_dumps_breakdown(a.revenue_breakdown)
    ELSE None

\* the payload; the arguments have passed the test serialization
payload_of(a) ==
    [ticker |-> a.ticker[1],
     year |-> a.year[1],
     quarter |-> a.quarter[1],
     income_statement |-> json_dumps_report(a.income)[1],
     balance_sheet |-> json_dumps_report(a.balance)[1],
     cash_flow |-> json_dumps_report(a.cash)[1],
     revenue_breakdown |-> payload_breakdown(a)]

\* what a call leaves behind: the table, whether the duplicate check found a
\* row, and Some(return value) or the exception that leaves the body
CallOutcome(rows, found, returned) == [rows |-> rows, found |-> found, returned |-> returned]

\* what the environment does to the two requests of a call
SelectOutcomes == {"answered", "raises"}

InsertOutcomes == {"stored", "stored_no_data", "rejected", "raises"}

\* supabase.table("financials").insert(payload).execute() and `if result.data:`
insert_payload(rows, a, insert) ==
    CASE insert = "stored" -> CallOutcome(Append(rows, payload_of(a)), FALSE, Some(TRUE))
      [] insert = "stored_no_data" -> CallOutcome(Append(rows, payload_of(a)), FALSE, Some(FALSE))
      [] insert = "rejected" -> CallOutcome(rows, FALSE, Some(FALSE))
      [] insert = "raises" -> CallOutcome(rows, FALSE, Raised_("APIError"))

\* the body of the outer try with the insert made whatever the duplicate check finds
upload_body_unchecked(rows, a, select, insert) ==
    IF ~all_required(a) THEN CallOutcome(rows, FALSE, Some(FALSE))
    ELSE IF select = "raises" THEN CallOutcome(rows, FALSE, Raised_("APIError"))
    ELSE IF ~serializes(a) THEN CallOutcome(rows, FALSE, Some(FALSE))
    ELSE insert_payload(rows, a, insert)

\* the body of the outer try
upload_body(rows, a, select, insert) ==
    IF ~all_required(a) THEN CallOutcome(rows, FALSE, Some(FALSE))
    ELSE IF select = "raises" THEN CallOutcome(rows, FALSE, Raised_("APIError"))
    ELSE IF select_existing(rows, a) # << >> THEN CallOutcome(rows, TRUE, Some(TRUE))
    ELSE IF ~serializes(a) THEN CallOutcome(rows, FALSE, Some(FALSE))
    ELSE insert_payload(rows, a, insert)

\* `except Exception as e: ... return False`
except_return_false(outcome) ==
    IF IsException(outcome.returned) THEN [outcome EXCEPT !.returned = Some(FALSE)] ELSE outcome

upload_to_supabase(rows, a, select, insert) ==
    except_return_false(upload_body(rows, a, select, insert))

MaxUploads == 3

\* report items: a date, a value and the Python type of the value
GoodReport == << [date |-> "2023-09-03", value |-> 1000, type |-> "float"] >>

DecimalReport == << [date |-> "2023-09-03", value |-> 1000, type |-> "Decimal"] >>

\* a result of the merchandise-category strategy with one category
FullBreakdown == merchandise_of_table(MerchTableA)

\* the same with an amount of a type json cannot encode
DecimalBreakdown ==
    [FullBreakdown EXCEPT
        !.revenue_breakdown = DictSet(EmptyDict, "Foods",
            DictSet(EmptyDict, "2023", [sig |-> 1, exp |-> 3, type |-> "Decimal"]))]

UploadKeys == {Some("COST"), Some("AAPL")} \X {Some(2022), Some(2023)} \X {Some(0)}

CallArgs(ticker, year, quarter, income, balance, cash, rb) ==
    [ticker |-> ticker, year |-> year, quarter |-> quarter, income |-> income,
     balance |-> balance, cash |-> cash, revenue_breakdown |-> rb]

\* calls with every argument in order, for each key and each kind of breakdown
GoodCalls ==
    {CallArgs(k[1], k[2], k[3], GoodReport, GoodReport, GoodReport, rb) :
        k \in UploadKeys,
        rb \in {None, Some(create_fallback_revenue_data), Some(FullBreakdown)}}

\* calls with one argument missing
MissingCalls ==
    {[g EXCEPT ![f] = << >>] :
        g \in {h \in GoodCalls : h.revenue_breakdown = Some(FullBreakdown)},
        f \in {"ticker", "year", "quarter", "income", "balance", "cash"}}
    \cup {[g EXCEPT !.ticker = Some("")] : g \in {h \in GoodCalls : h.revenue_breakdown = None}}

\* calls with one argument json cannot encode
UnserializableCalls ==
    {[g EXCEPT ![f] = DecimalReport] :
        g \in {h \in GoodCalls : h.revenue_breakdown = None},
        f \in {"income", "balance", "cash"}}
    \cup {[g EXCEPT !.revenue_breakdown = Some(DecimalBreakdown)] :
             g \in {h \in GoodCalls : h.revenue_breakdown = None}}

UploadCalls == GoodCalls \cup MissingCalls \cup UnserializableCalls

UploadInit ==
    /\ financials = << >>
    /\ upload_count = 0
    /\ upload_last = None
    /\ NoPipeline /\ NoTableCall /\ NoParseCall /\ NoRerun /\ NoRowCall /\ NoPassRun
    /\ NoCompany

\* one call of upload_to_supabase, from its first to its last statement
Upload ==
    /\ upload_count < MaxUploads
    /\ \E a \in UploadCalls, select \in SelectOutcomes, insert \in InsertOutcomes :
         /\ financials' = upload_to_supabase(financials, a, select, insert).rows
         /\ upload_last' = Some([args |-> a,
                                 rows_before |-> financials,
                                 found |-> upload_to_supabase(financials, a, select, insert).found,
                                 returned |-> upload_to_supabase(financials, a, select, insert).returned])
    /\ upload_count' = upload_count + 1
    /\ UNCHANGED <<pipeline_vars, table_vars, parse_vars, rerun_vars, row_vars, pass_vars,
                   company_vars>>

UploadNext == Upload

UploadSpec == UploadInit /\ [][UploadNext]_vars

(***************************************************************************)
(* edgar/main.py: extract_financial_data and process_company_filing        *)
(***************************************************************************)
\* datetime.strptime(date_string, '%d-%m-%Y') and '%Y-%m-%d' succeed
IsDayMonthYear(t) ==
    /\ Len(t) = 10 /\ CharAt(t, 3) = "-" /\ CharAt(t, 6) = "-"
    /\ AllDigits(SubSeq(t, 1, 2)) /\ AllDigits(SubSeq(t, 4, 5)) /\ AllDigits(SubSeq(t, 7, 10))

IsYearMonthDay(t) ==
    /\ Len(t) = 10 /\ CharAt(t, 5) = "-" /\ CharAt(t, 8) = "-"
    /\ AllDigits(SubSeq(t, 1, 4)) /\ AllDigits(SubSeq(t, 6, 7)) /\ AllDigits(SubSeq(t, 9, 10))

\* parse_date_flexible: Some(datetime) or None; of date_patterns the first two,
\* the others match none of the date texts used here
parse_date_flexible(date_string) ==
    IF date_string = "" THEN None
    ELSE IF IsDayMonthYear(strip(date_string))
    THEN Some([day |-> SubSeq(strip(date_string), 1, 2),
               month |-> SubSeq(strip(date_string), 4, 5),
               year |-> SubSeq(strip(date_string), 7, 10)])
    ELSE IF IsYearMonthDay(strip(date_string))
    THEN Some([day |-> SubSeq(strip(date_string), 9, 10),
               month |-> SubSeq(strip(date_string), 6, 7),
               year |-> SubSeq(strip(date_string), 1, 4)])
    ELSE None

\* parsed_date.strftime("%d-%m-%Y")
strftime(parsed_date) == parsed_date.day \o "-" \o parsed_date.month \o "-" \o parsed_date.year

\* converted["date"] = parsed_date.strftime("%d-%m-%Y") if parsed_date else v
convert_date(v) ==
    IF parse_date_flexible(v) = None THEN v ELSE strftime(parse_date_flexible(v)[1])

\* convert_report(...)["reports"]
convert_report(reports) ==
    [i \in 1..Len(reports) |-> [reports[i] EXCEPT !.date = convert_date(@)]]

\* filter_reports_by_years: Some(list), or AttributeError where a date does not
\* parse (None.year)
filter_reports_by_years(reports, target_year) ==
    IF \E i \in 1..Len(reports) : parse_date_flexible(reports[i].date) = None
    THEN Raised_("AttributeError")
    ELSE Some(SelectSeq(reports,
                        LAMBDA r : IntOf(parse_date_flexible(r.date)[1].year) = target_year))

\* validate_financial_data: the reports are dicts with a "date"
validate_financial_data(data) == data # << >>

\* what filing.get_revenue_breakdown() gives, by the kind of the filing text
get_revenue_breakdown(filing) ==
    CASE filing.breakdown = "raises" -> Raised_("Exception")
      [] filing.breakdown = "none" -> None
      [] filing.breakdown = "failed" ->
           Some(FailedResult("object of type 'NoneType' has no len()"))
      [] filing.breakdown = "empty" -> Some(InitialRevenueData)
      [] filing.breakdown = "full" -> Some(FullBreakdown)

\* the inner try and `if revenue_breakdown is None`
breakdown_or_fallback(got) ==
    IF IsException(got) \/ got = None THEN Some(create_fallback_revenue_data) ELSE got

\* return None, None, None, None, None
NoReports ==
    [income |-> << >>, balance |-> << >>, cash |-> << >>,
     revenue_breakdown |-> None, report_year |-> None]

\* the return of extract_financial_data once the three filters have returned
extract_filtered(income_reports, balance_reports, cash_reports, breakdown, target_year) ==
    IF /\ validate_financial_data(income_reports)
       /\ validate_financial_data(balance_reports)
       /\ validate_financial_data(cash_reports)
    THEN [income |-> income_reports, balance |-> balance_reports, cash |-> cash_reports,
          revenue_breakdown |-> breakdown, report_year |-> Some(target_year)]
    ELSE NoReports

\* the date texts of a list of reports given by year and notation
DateText(part) ==
    CASE part.notation = "iso" -> part.year \o "-09-03"
      [] part.notation = "dmy" -> "28-08-" \o part.year
      [] part.notation = "fiscal" -> "FY" \o part.year

ReportsOf(parts) ==
    [i \in 1..Len(parts) |-> [date |-> DateText(parts[i]), value |-> 1000, type |-> "float"]]

extract_financial_data(filing, target_year) ==
    IF filing.statements = "raises" THEN NoReports
    ELSE LET income_reports == filter_reports_by_years(convert_report(ReportsOf(filing.income)), target_year)
             balance_reports == filter_reports_by_years(convert_report(ReportsOf(filing.balance)), target_year)
             cash_reports == filter_reports_by_years(convert_report(ReportsOf(filing.cash)), target_year)
         IN  IF IsException(income_reports) \/ IsException(balance_reports) \/ IsException(cash_reports)
             THEN NoReports
             ELSE extract_filtered(income_reports[1], balance_reports[1], cash_reports[1],
                                   breakdown_or_fallback(get_revenue_breakdown(filing)),
                                   target_year)

\* a test that asks for breakdown entries as well
has_reports_and_breakdown(extracted) ==
    /\ extracted.income # << >> /\ extracted.balance # << >> /\ extracted.cash # << >>
    /\ DOMAIN extracted.revenue_breakdown[1].revenue_breakdown # {}

\* `if income and balance and cash:`
has_reports(extracted) ==
    extracted.income # << >> /\ extracted.balance # << >> /\ extracted.cash # << >>

\* the reports of a filing: for both years, for 2022 only, none, and with a
\* date that does not parse
BothYears == << [year |-> "2023", notation |-> "iso"], [year |-> "2022", notation |-> "dmy"] >>

Only2022 == << [year |-> "2022", notation |-> "iso"] >>

UnparsedDate == << [year |-> "2023", notation |-> "iso"], [year |-> "2021", notation |-> "fiscal"] >>

BreakdownKinds == {"raises", "none", "failed", "empty", "full"}

Filed(statements, income, balance, cash, breakdown) ==
    [status |-> "filed", statements |-> statements, income |-> income,
     balance |-> balance, cash |-> cash, breakdown |-> breakdown]

\* stock.get_filing returns None, or raises
NotFiled == [Filed("ok", << >>, << >>, << >>, "none") EXCEPT !.status = "none"]

GetFilingRaises == [NotFiled EXCEPT !.status = "raises"]

FilingPool ==
    {NotFiled, GetFilingRaises}
    \cup {Filed("ok", BothYears, BothYears, BothYears, b) : b \in BreakdownKinds}
    \cup {Filed("ok", Only2022, BothYears, BothYears, "full"),
          Filed("ok", BothYears, << >>, BothYears, "full"),
          Filed("ok", BothYears, BothYears, UnparsedDate, "full"),
          Filed("raises", BothYears, BothYears, BothYears, "full")}

TargetYears == {2022, 2023}

\* the arguments process_company_filing hands to upload_to_supabase
upload_args(ticker, extracted) ==
    CallArgs(Some(ticker), extracted.report_year, Some(0), extracted.income,
             extracted.balance, extracted.cash, extracted.revenue_breakdown)

CompanyInit ==
    /\ company \in [ticker : {"COST"}, target_year : TargetYears, stock : {"ok", "raises"},
                    filings : [1..2 -> FilingPool]]
    /\ company_pc = "start"
    /\ filing_index = 1
    /\ company_returned = None
    /\ financials \in {<< >>,
                       <<payload_of(CallArgs(Some("COST"), Some(2023), Some(0), GoodReport,
                                             GoodReport, GoodReport, None))>>}
    /\ upload_count = 0
    /\ upload_last = None
    /\ NoPipeline /\ NoTableCall /\ NoParseCall /\ NoRerun /\ NoRowCall /\ NoPassRun

\* stock = Stock(ticker); an exception goes to `except Exception: return False`
CreateStock ==
    /\ company_pc = "start"
    /\ IF company.stock = "raises"
       THEN company_pc' = "returned" /\ company_returned' = Some(FALSE)
       ELSE company_pc' = "loop" /\ company_returned' = company_returned
    /\ UNCHANGED <<company, filing_index, upload_vars, pipeline_vars, table_vars, parse_vars,
                   rerun_vars, row_vars, pass_vars>>

\* an iteration of `for filing_year in [target_year, target_year + 1]` that
\* does not reach the upload: get_filing raises, there is no filing, or
\* extract_financial_data returns no reports
SkipFilingYear ==
    /\ company_pc = "loop"
    /\ filing_index <= 2
    /\ \/ company.filings[filing_index].status # "filed"
       \/ ~has_reports(extract_financial_data(company.filings[filing_index], company.target_year))
    /\ IF company.filings[filing_index].status = "raises"
       THEN /\ company_pc' = "returned" /\ company_returned' = Some(FALSE)
            /\ filing_index' = filing_index
       ELSE /\ company_pc' = company_pc /\ company_returned' = company_returned
            /\ filing_index' = filing_index + 1
    /\ UNCHANGED <<company, upload_vars, pipeline_vars, table_vars, parse_vars,
                   rerun_vars, row_vars, pass_vars>>

\* an iteration that reaches `return upload_to_supabase(ticker, report_year, 0, ...)`
UploadFilingYear ==
    /\ company_pc = "loop"
    /\ filing_index <= 2
    /\ company.filings[filing_index].status = "filed"
    /\ has_reports(extract_financial_data(company.filings[filing_index], company.target_year))
    /\ \E select \in SelectOutcomes, insert \in InsertOutcomes :
         LET a == upload_args(company.ticker,
                              extract_financial_data(company.filings[filing_index],
                                                     company.target_year))
         IN  /\ financials' = upload_to_supabase(financials, a, select, insert).rows
             /\ upload_last' = Some([args |-> a,
                                     rows_before |-> financials,
                                     found |-> upload_to_supabase(financials, a, select, insert).found,
                                     returned |-> upload_to_supabase(financials, a, select, insert).returned])
             /\ company_returned' = upload_to_supabase(financials, a, select, insert).returned
    /\ upload_count' = upload_count + 1
    /\ company_pc' = "returned"
    /\ UNCHANGED <<company, filing_index, pipeline_vars, table_vars, parse_vars,
                   rerun_vars, row_vars, pass_vars>>

\* the loop is over: `return False`
NoFilingUploaded ==
    /\ company_pc = "loop"
    /\ filing_index > 2
    /\ company_pc' = "returned"
    /\ company_returned' = Some(FALSE)
    /\ UNCHANGED <<company, filing_index, upload_vars, pipeline_vars, table_vars, parse_vars,
                   rerun_vars, row_vars, pass_vars>>

CompanyNext == CreateStock \/ SkipFilingYear \/ UploadFilingYear \/ NoFilingUploaded

CompanySpec == CompanyInit /\ [][CompanyNext]_vars

\* the extractor named e applied to a table
ExtractWith(e, table) ==
    CASE e = "generic" -> _extract_revenue_from_table(table)
      [] e = "segment" -> _extract_segment_revenue_from_table(table)
      [] e = "merchandise" -> Some(merchandise_of_table(table))

\* the label of a row: the stripped text of its first cell
LabelOf(row) == strip(Cell(row, 0))

\* the table without the rows below its first row that carry the label
WithoutRowsLabelled(table, label) ==
    <<Head(table)>> \o SelectSeq(Tail(table), LAMBDA row : LabelOf(row) # label)

\* C12: a row labelled "Total Revenue Growth Percentage" is never counted:
\* whichever extractor processes the table (generic, segment or
\* merchandise-category), its result is the one it gives for the table without
\* that row - no breakdown entry, no source and no total_revenue comes from it.
C12_GrowthPercentageRowNeverCounted ==
    table_out # None =>
        table_out[1].returned =
            ExtractWith(table_out[1].extractor,
                        WithoutRowsLabelled(sample_table, "Total Revenue Growth Percentage"))

\* the extractors that detect year columns
YearExtractors == {"generic", "merchandise"}

\* the year columns extractor e detects in a table, as <<index, year>> pairs
DetectedColumns(e, table) ==
    IF e = "merchandise" THEN merch_year_columns(table, 1)
    ELSE IF Len(table) < 2 THEN << >>
    ELSE generic_year_columns(table[1], 0)

\* the row policy of extractor e accepts the row
AcceptedRow(e, row) ==
    /\ Len(row) >= 2
    /\ IF e = "generic" THEN _is_revenue_row(LabelOf(row))
                        ELSE _is_merchandise_category(LabelOf(row))

\* the cell texts after which the next cell is to be read
Placeholders == {"", "$", EmDash, "-"}

\* the result of extractor e holds `amount` for the row label and the year
Recorded(e, returned, label, year, amount) ==
    /\ returned # None
    /\ IF e = "generic"
       THEN /\ GenericKey(label, year) \in DOMAIN returned[1].revenue_breakdown
            /\ \E i \in 1..Len(returned[1].revenue_sources) :
                 /\ returned[1].revenue_sources[i].description = label
                 /\ returned[1].revenue_sources[i].year = year
                 /\ returned[1].revenue_sources[i].amount = amount
       ELSE \/ is_total_row(label)
            \/ /\ label \in DOMAIN returned[1].revenue_breakdown
               /\ year \in DOMAIN returned[1].revenue_breakdown[label]
               /\ \E i \in 1..Len(returned[1].revenue_sources) :
                    /\ returned[1].revenue_sources[i].description = label
                    /\ year \in DOMAIN returned[1].revenue_sources[i].amounts
                    /\ returned[1].revenue_sources[i].amounts[year] = amount

\* C13: spacer-column fallback in every extractor that reads year columns:
\* when the cell of an accepted row at a detected year column is empty or a
\* placeholder ($, em dash, -) and the next cell exists and parses, the amount
\* of the next cell is recorded for that row and year ("$" then "1,000"
\* gives 1000).
C13_SpacerColumnFallback ==
    table_out # None /\ table_out[1].extractor \in YearExtractors =>
        \A r \in 2..Len(sample_table) :
            AcceptedRow(table_out[1].extractor, sample_table[r]) =>
                \A c \in 1..Len(DetectedColumns(table_out[1].extractor, sample_table)) :
                    LET col == DetectedColumns(table_out[1].extractor, sample_table)[c]
                        row == sample_table[r]
                    IN  /\ col[1] + 1 < Len(row)
                        /\ strip(Cell(row, col[1])) \in Placeholders
                        /\ _parse_amount(strip(Cell(row, col[1] + 1))) # None
                        => Recorded(table_out[1].extractor, table_out[1].returned,
                                    LabelOf(row), col[2],
                                    _parse_amount(strip(Cell(row, col[1] + 1)))[1])

\* the examples of the amount parser: <<text, value>>
AmountExamples ==
    { <<"$1,234", Some(Num(1234))>>, <<"(500)", Some(Num(-500))>>,
      <<"(1,234)", Some(Num(-1234))>>, <<"2.5 million", Some(Num(2500000))>>,
      <<EmDash, None>>, <<"", None>>, <<"abc", None>> }

\* C14: _parse_amount normalises amount text: thousands separators, the
\* currency symbol and surrounding blanks are stripped, a parenthesised amount
\* is negative, a magnitude word multiplies, and the sentinel tokens (em dash,
\* -, empty text, N/A in any letter case) give None, not zero; the listed
\* examples have the listed values.
C14_ParseAmountNormalises ==
    amount_out # None =>
        /\ \A f \in AmountForms : sample_text = TextOf(f) => amount_out[1] = Some(ValueOf(f))
        /\ sample_text \in SentinelTexts => amount_out[1] = None
        /\ \A e \in AmountExamples : sample_text = e[1] => amount_out[1] = e[2]

\* a parenthesised amount with currency symbol, separator and magnitude word has been parsed
C14_Witness ==
    /\ amount_out # None
    /\ sample_text = " $(1,234) million"
    /\ amount_out[1] = Some(Neg(Num(1234000000)))

\* C15: _parse_amount is total over strings: for every text it returns a number
\* or None and never raises; a text that fails the numeric conversion after
\* normalisation gives None.
C15_ParseAmountTotal ==
    amount_out # None =>
        /\ \/ amount_out[1] = None
           \/ Len(amount_out[1]) = 1 /\ IsAmount(amount_out[1][1])
        /\ sample_text \in JunkTexts => amount_out[1] = None

\* a text that is no number after normalisation has been parsed to None
C15_Witness ==
    /\ amount_out # None
    /\ sample_text = "1.2.3"
    /\ amount_out[1] = None

AcceptedRowsLabelled(e, table, label) ==
    {r \in 2..Len(table) : AcceptedRow(e, table[r]) /\ LabelOf(table[r]) = label}

\* the entries of a generic result's revenue_sources for a label and a year
SourcesFor(returned, label, year) ==
    {i \in 1..Len(returned[1].revenue_sources) :
        /\ returned[1].revenue_sources[i].description = label
        /\ returned[1].revenue_sources[i].year = year}

\* C17: header detection deduplicates by year in every extractor that detects
\* year columns (generic and merchandise-category): a year occurs at most once
\* among the detected columns, and a year contributes at most one amount per
\* accepted row.
C17_HeaderYearsDeduplicated ==
    table_out # None /\ table_out[1].extractor \in YearExtractors =>
        /\ \A c, d \in 1..Len(DetectedColumns(table_out[1].extractor, sample_table)) :
              c # d => DetectedColumns(table_out[1].extractor, sample_table)[c][2]
                         # DetectedColumns(table_out[1].extractor, sample_table)[d][2]
        /\ table_out[1].extractor = "generic" /\ table_out[1].returned # None =>
              \A i \in 1..Len(table_out[1].returned[1].revenue_sources) :
                 LET src == table_out[1].returned[1].revenue_sources[i] IN
                 Cardinality(SourcesFor(table_out[1].returned, src.description, src.year))
                    <= Cardinality(AcceptedRowsLabelled("generic", sample_table, src.description))

\* the rows among which the merchandise strategy looks for the header row, and
\* that have a year column
MerchHeaderRows(table) ==
    {r \in 1..Len(table) : r <= 5 /\ merch_temp_years(table[r], 0, <<<< >>, {}>>) # << >>}

\* the position of the header row extractor e detects (1 is the first row), 0 if
\* the merchandise strategy finds none
HeaderRowIndex(e, table) ==
    IF e # "merchandise" THEN 1
    ELSE IF MerchHeaderRows(table) = {} THEN 0
    ELSE CHOOSE r \in MerchHeaderRows(table) : \A q \in MerchHeaderRows(table) : r <= q

\* C18: the data rows are exactly the rows after the detected header row: the
\* header row and the rows before it contribute nothing to revenue_breakdown,
\* revenue_sources or total_revenue - the result is the one for the table that
\* starts at its header row - also where the merchandise-category strategy
\* finds the header row below the first row.
C18_DataRowsFollowHeaderRow ==
    table_out # None /\ HeaderRowIndex(table_out[1].extractor, sample_table) > 0 =>
        table_out[1].returned =
            ExtractWith(table_out[1].extractor,
                        SubSeq(sample_table,
                               HeaderRowIndex(table_out[1].extractor, sample_table),
                               Len(sample_table)))

\* the row has a cell that parses as an amount at the detected column col = <<index, year>>
ParsableAt(row, col) ==
    col[1] < Len(row) /\ _parse_amount(strip(Cell(row, col[1]))) # None

\* C19: every detected header column is read: when an accepted data row has a
\* parsable amount in each of the k detected year columns, the row yields an
\* amount for each of them, in the merchandise-category strategy as in the
\* generic extractor.
C19_EveryDetectedColumnRead ==
    table_out # None /\ table_out[1].extractor \in YearExtractors =>
        \A r \in 2..Len(sample_table) :
            LET cols == DetectedColumns(table_out[1].extractor, sample_table)
                row == sample_table[r]
            IN  /\ AcceptedRow(table_out[1].extractor, row)
                /\ \A c \in 1..Len(cols) : ParsableAt(row, cols[c])
                => \A c \in 1..Len(cols) :
                      Recorded(table_out[1].extractor, table_out[1].returned,
                               LabelOf(row), cols[c][2],
                               _parse_amount(strip(Cell(row, cols[c][1])))[1])

\* among the rows that yield a value, the positions of the total rows
TotalRowsIn(rows) == {i \in 1..Len(rows) : rows[i].total}

\* the value a row yields: the one entry of its revenue_by_year
ValueYielded(row) ==
    CHOOSE v \in {row.revenue_by_year[y] : y \in DOMAIN row.revenue_by_year} : TRUE

\* C20: in the merchandise-category strategy a row whose label holds a total
\* term (total, net, grand total, consolidated) and a sales/revenue term and
\* which yields a parsed value has that value captured as total_revenue (the
\* last such row of the table decides) and is never added to revenue_breakdown
\* or revenue_sources.
C20_TotalRowCapturedAsTotalRevenue ==
    table_out # None /\ table_out[1].extractor = "merchandise" =>
        LET rows == merch_table_rows(sample_table)
            out == table_out[1].returned[1]
        IN  /\ \A i \in TotalRowsIn(rows) :
                  /\ rows[i].category_name \notin DOMAIN out.revenue_breakdown
                  /\ \A k \in 1..Len(out.revenue_sources) :
                        out.revenue_sources[k].description # rows[i].category_name
            /\ TotalRowsIn(rows) # {} =>
                  out.total_revenue =
                      Some(ValueYielded(rows[CHOOSE i \in TotalRowsIn(rows) :
                                                \A j \in TotalRowsIn(rows) : j <= i]))

\* C21: _is_revenue_row gives exclusion precedence over inclusion: it is true
\* exactly when the lower-cased label contains a revenue-indicating term and
\* none of the exclusion terms; a label with a term of both lists is rejected.
C21_ExclusionBeforeInclusion ==
    row_out # None =>
        \A f \in LabelForms :
            sample_label = LabelText(f) => row_out[1] = (f.indicator # 0 /\ f.exclusion = 0)

\* a label with a term of both lists has been rejected
C21_Witness ==
    /\ row_out = Some(FALSE)
    /\ sample_label = "Item Total Revenues percentage"

\* the examples of magnitude words: <<text, value>>
MagnitudeExamples ==
    { <<"1.5m", Num(1500000)>>, <<"3k", Num(3000)>>, <<"2 thousand", Num(2000)>> }

\* C22: _parse_amount recognises magnitude words in any letter case: a text
\* with "million" or "m" is multiplied by 1,000,000, otherwise one with
\* "thousand" or "k" by 1,000, the word being removed before the conversion
\* ("1.5m" = 1500000, "3k" = 3000, "2 thousand" = 2000); when what is left is
\* empty or a sentinel the result is None.
C22_MagnitudeWords ==
    amount_out # None =>
        /\ \A f \in MagnitudeForms :
              sample_text = MagnitudeText(f) =>
                  amount_out[1] = Some(Scale10(MagnitudeValues[f.number], MagnitudePowers[f.word]))
        /\ sample_text \in BareMagnitudeTexts => amount_out[1] = None
        /\ \A e \in MagnitudeExamples : sample_text = e[1] => amount_out[1] = Some(e[2])

\* an upper-case magnitude word has multiplied the number before it
C22_Witness ==
    /\ amount_out # None
    /\ sample_text = "1.5 MILLION"
    /\ amount_out[1] = Some(Num(1500000))

\* the rows extractor e scans for the header: the first row, or the first five
ScannedRows(e, table) ==
    {r \in 1..Len(table) : r <= (IF e = "generic" THEN 1 ELSE 5)}

\* a cell of the row matches the year pattern of extractor e
HasYearMatch(e, row) ==
    \E i \in 0..(Len(row) - 1) :
        IF e = "generic" THEN search_20dd(strip(Cell(row, i))) # None
                         ELSE match_year_header(strip(Cell(row, i)))

\* the scanned rows of the table that have a year match
ScannedMatches(e, table) == {r \in ScannedRows(e, table) : HasYearMatch(e, table[r])}

\* the year columns extractor e reads off one row
ColumnsOfRow(e, row) ==
    IF e = "generic" THEN generic_year_columns(row, 0)
                     ELSE merch_temp_years(row, 0, <<<< >>, {}>>)

\* the table gave nothing: None from the generic extractor, no breakdown entry,
\* no source and no total from the merchandise-category strategy
Rejected(e, returned) ==
    IF e = "generic" THEN returned = None
    ELSE /\ returned[1].revenue_breakdown = EmptyDict
         /\ returned[1].revenue_sources = << >>
         /\ returned[1].total_revenue = None

\* C23: header detection scans only row 0 in the generic extractor and rows 0
\* to 4 in the merchandise-category strategy; the first scanned row with a year
\* match is the header row, and when no scanned row has one the table is
\* rejected: it contributes nothing to revenue_breakdown, revenue_sources or
\* total_revenue, and the extractor still returns.
C23_HeaderScanRange ==
    table_out # None /\ table_out[1].extractor \in YearExtractors =>
        LET e == table_out[1].extractor
            found == ScannedMatches(e, sample_table)
        IN  /\ found = {} => Rejected(e, table_out[1].returned)
            /\ found # {} /\ (e = "generic" => Len(sample_table) >= 2) =>
                  DetectedColumns(e, sample_table) =
                      ColumnsOfRow(e, sample_table[CHOOSE r \in found :
                                                      \A q \in found : r <= q])

\* a table whose only year header is its sixth row went through the
\* merchandise-category strategy and gave nothing
C23_Witness ==
    /\ table_out # None /\ table_out[1].extractor = "merchandise"
    /\ Len(sample_table) = 7
    /\ HasYearMatch("merchandise", sample_table[6])
    /\ ScannedMatches("merchandise", sample_table) = {}
    /\ Rejected("merchandise", table_out[1].returned)

\* the widest row of a table
Width(table) == CHOOSE w \in {Len(table[r]) : r \in 1..Len(table)} :
                    \A r \in 1..Len(table) : Len(table[r]) <= w

\* the row with empty cells added up to w cells
PadRow(row, w) == row \o [i \in 1..(w - Len(row)) |-> ""]

\* the table with every row brought to the width of the widest
Padded(table) == [r \in 1..Len(table) |-> PadRow(table[r], Width(table))]

\* the data rows that have no cell at a detected column, or none after it
ShortRows(e, table) ==
    {r \in 2..Len(table) :
        \E c \in 1..Len(DetectedColumns(e, table)) :
            DetectedColumns(e, table)[c][1] + 1 >= Len(table[r])}

\* C24: header column indices are used as they are on the data rows, and a data
\* row with fewer cells than a header column index (or than the fallback index
\* + 1) never causes an error: the column is skipped for that row and the other
\* columns and rows are processed as usual - the extractor returns what it
\* returns for the table whose short rows are filled up with empty cells.
C24_ShortRowsSkipColumn ==
    table_out # None /\ table_out[1].extractor \in YearExtractors =>
        table_out[1].returned = ExtractWith(table_out[1].extractor, Padded(sample_table))

\* the merchandise-category strategy met a row without a cell at the year
\* column (IndexError), recorded nothing for it and recorded the next row
C24_Witness ==
    /\ table_out # None /\ table_out[1].extractor = "merchandise"
    /\ sample_table = << <<"Category", "", "2023">>, <<"Services revenue", "400">>,
                          <<"Product revenue", "500", "600">> >>
    /\ 2 \in ShortRows("merchandise", sample_table)
    /\ DOMAIN table_out[1].returned[1].revenue_breakdown = {"Product revenue"}

\* the merchandise-category strategy returned a total and no breakdown entry
\* for the document
MerchandiseTotalOnly ==
    /\ StrategyResult(3).total_revenue # None
    /\ DOMAIN StrategyResult(3).revenue_breakdown = {}

\* C25: total_revenue is only produced by the merchandise-category strategy and
\* survives only together with a breakdown: a result of
\* extract_revenue_breakdown whose total_revenue is not None is labelled
\* merchandise_category_tables and has a non-empty revenue_breakdown; a
\* merchandise-category pass that returned a total and no breakdown entry is
\* not taken by the orchestrator, which goes on to the notes strategy.
C25_TotalOnlyWithMerchandiseBreakdown ==
    FromPipeline =>
        /\ result[1].total_revenue # None =>
              /\ result[1].extraction_method = "merchandise_category_tables"
              /\ DOMAIN result[1].revenue_breakdown # {}
        /\ Len(outcomes) >= 3 /\ outcomes[3] # "raised" /\ MerchandiseTotalOnly =>
              /\ outcomes[3] = "empty"
              /\ Len(invoked) = 4
              /\ invoked[4] = "_extract_from_notes_tables"
              /\ result[1].total_revenue = None
              /\ result[1].extraction_method # "merchandise_category_tables"

\* the merchandise-category pass captured the total 500 and nothing else, and
\* the result is the one of the notes strategy
C25_Witness ==
    /\ FromPipeline
    /\ outcomes = <<"empty", "empty", "empty", "data">>
    /\ MerchandiseTotalOnly
    /\ StrategyResult(3).total_revenue = Some(Num(500))
    /\ result[1].extraction_method = "notes_tables"
    /\ result[1].total_revenue = None

\* the rows of the first n tables of the pass that reach `if revenue_by_year:`
RECURSIVE AcceptedRowsOf(_, _)
AcceptedRowsOf(tables, n) ==
    IF n = 0 THEN << >>
    ELSE AcceptedRowsOf(tables, n - 1) \o merch_table_rows(tables[n])

\* the periods a total is taken from, in the order of preference
PreferredPeriods == <<"2023", "2022", "2021">>

\* the value of a row for the first preferred period it has, None without one
PreferredValue(row) ==
    LET has == {k \in 1..Len(PreferredPeriods) : PreferredPeriods[k] \in DOMAIN row.revenue_by_year}
    IN  IF has = {} THEN None
        ELSE Some(row.revenue_by_year[PreferredPeriods[CHOOSE k \in has : \A j \in has : k <= j]])

\* total_revenue as the last accepted total row among rows decides it
TotalAfter(rows) ==
    IF TotalRowsIn(rows) = {} THEN None
    ELSE PreferredValue(rows[CHOOSE i \in TotalRowsIn(rows) : \A j \in TotalRowsIn(rows) : j <= i])

\* C26: in the merchandise-category pass total_revenue is decided by the last
\* accepted total row in document order, after every table and at the return:
\* it is that row's value for 2023, else 2022, else 2021, else None - so a later
\* total row whose only period is outside 2021-2023 resets a captured total to
\* None.
C26_LastTotalRowDecides ==
    pass_done \in Nat =>
        /\ pass_data.total_revenue = TotalAfter(AcceptedRowsOf(pass_tables, pass_done))
        /\ pass_returned # None =>
              pass_returned[1].total_revenue =
                  TotalAfter(AcceptedRowsOf(pass_tables, Len(pass_tables)))

\* the pass returned without a total after a table with a total row for 2022
\* and a later table with a total row for 2024 only
C26_Witness ==
    /\ pass_returned # None
    /\ Len(pass_tables) = 2
    /\ TotalAfter(AcceptedRowsOf(pass_tables, 1)) = Some(Num(3000))
    /\ \E i \in TotalRowsIn(merch_table_rows(pass_tables[2])) :
          DOMAIN merch_table_rows(pass_tables[2])[i].revenue_by_year = {"2024"}
    /\ pass_returned[1].total_revenue = None

\* the revenue_sources entry src was stored together with the breakdown key:
\* it carries the row label (and year) or the segment the key is made of
StoredWith(method, src, key) ==
    CASE method = "segment_tables" -> key = SegmentKey(src.segment)
      [] method = "merchandise_category_tables" -> key = src.description
      [] OTHER -> key = GenericKey(src.description, src.year)

\* C27: in every result of extract_revenue_breakdown, revenue_breakdown is
\* empty exactly when revenue_sources is empty, every revenue_breakdown key has
\* at least one revenue_sources entry for the same row label or segment, and
\* there are at least as many revenue_sources entries as revenue_breakdown keys.
C27_BreakdownAndSourcesAgree ==
    FromPipeline =>
        /\ (DOMAIN result[1].revenue_breakdown = {}) <=> (result[1].revenue_sources = << >>)
        /\ \A key \in DOMAIN result[1].revenue_breakdown :
              \E i \in 1..Len(result[1].revenue_sources) :
                  StoredWith(result[1].extraction_method, result[1].revenue_sources[i], key)
        /\ Len(result[1].revenue_sources) >= Cardinality(DOMAIN result[1].revenue_breakdown)

\* two rows stored under the one key "Foods": one breakdown key, two sources
C27_Witness ==
    /\ FromPipeline
    /\ result[1].extraction_method = "merchandise_category_tables"
    /\ DOMAIN result[1].revenue_breakdown = {"Foods"}
    /\ Len(result[1].revenue_sources) = 2
    /\ \A i \in 1..2 : result[1].revenue_sources[i].description = "Foods"

\* no two rows of the table have the same ticker, year and quarter
AtMostOneRowPerKey ==
    \A i, j \in 1..Len(financials) :
        i # j => <<financials[i].ticker, financials[i].year, financials[i].quarter>>
                    # <<financials[j].ticker, financials[j].year, financials[j].quarter>>

\* the last call returned v and left the table as it was
ReturnedWithoutInsert(v) ==
    /\ upload_last[1].returned = Some(v)
    /\ financials = upload_last[1].rows_before

\* C28 as stated: after any sequence of upload_to_supabase calls made one after
\* the other the table has at most one row per (ticker, year, quarter); a call
\* that finds an existing row for its key returns True without inserting; a
\* call with a missing ticker, year, quarter, income, balance or cash, or with
\* data json cannot encode, returns False without inserting; no call raises.
C28_OneRowPerKey ==
    /\ AtMostOneRowPerKey
    /\ upload_last # None =>
         /\ upload_last[1].found => ReturnedWithoutInsert(TRUE)
         /\ upload_last[1].args \in MissingCalls \cup UnserializableCalls =>
               ReturnedWithoutInsert(FALSE)
         /\ ~IsException(upload_last[1].returned)

\* C28 amended: the same, where a call with data json cannot encode returns
\* False without inserting when its duplicate check found no row; when the
\* check found a row the call returns True as every call that finds one.
C28_OneRowPerKeyDuplicateCheckFirst ==
    /\ AtMostOneRowPerKey
    /\ upload_last # None =>
         /\ upload_last[1].found => ReturnedWithoutInsert(TRUE)
         /\ upload_last[1].args \in MissingCalls => ReturnedWithoutInsert(FALSE)
         /\ upload_last[1].args \in UnserializableCalls /\ ~upload_last[1].found =>
               ReturnedWithoutInsert(FALSE)
         /\ ~IsException(upload_last[1].returned)

\* a call with an income report json cannot encode found the row of an earlier
\* call and returned True; the table has that one row
C28_Witness ==
    /\ upload_last # None
    /\ upload_last[1].args \in UnserializableCalls
    /\ upload_last[1].args.income = DecimalReport
    /\ upload_last[1].found
    /\ ReturnedWithoutInsert(TRUE)
    /\ Len(financials) = 1

\* the reports given by parts hold one for the year, and each date is written
\* in a notation that parses
HasYear(parts, year) ==
    \E i \in 1..Len(parts) : IntOf(parts[i].year) = year

AllParse(parts) == \A i \in 1..Len(parts) : parts[i].notation \in {"iso", "dmy"}

\* the k-th filing year has a filing whose income, balance and cash reports
\* for target_year are all there
Qualifies(k) ==
    /\ company.filings[k].status = "filed"
    /\ company.filings[k].statements = "ok"
    /\ \A parts \in {company.filings[k].income, company.filings[k].balance, company.filings[k].cash} :
          AllParse(parts) /\ HasYear(parts, company.target_year)

\* an exception reaches the handler of process_company_filing at the k-th filing year
RaisesAt(k) == company.filings[k].status = "raises"

\* the filing years at which the loop ends
Decisive == {k \in 1..2 : Qualifies(k) \/ RaisesAt(k)}

FirstDecisive == CHOOSE k \in Decisive : \A j \in Decisive : k <= j

\* C29: process_company_filing tries the filing years target_year and
\* target_year + 1 in that order and calls upload_to_supabase at most once, for
\* the first filing whose income, balance and cash reports for target_year are
\* all valid, with report year target_year and quarter 0, and returns what that
\* call returns, whatever the revenue breakdown of the filing is (empty, failed,
\* fallback); when no filing qualifies, or an exception reaches it (from Stock
\* or get_filing), it returns False; it never raises.
C29_UploadsFirstQualifyingFiling ==
    company_pc \in {"start", "loop", "returned"} =>
        /\ upload_count <= 1
        /\ company_pc # "returned" => upload_count = 0 /\ company_returned = None
        /\ company_pc = "returned" =>
             /\ company_returned \in {Some(TRUE), Some(FALSE)}
             /\ IF company.stock = "ok" /\ Decisive # {} /\ Qualifies(FirstDecisive)
                THEN /\ upload_count = 1
                     /\ upload_last[1].args.ticker = Some(company.ticker)
                     /\ upload_last[1].args.year = Some(company.target_year)
                     /\ upload_last[1].args.quarter = Some(0)
                     /\ upload_last[1].args.revenue_breakdown # None
                     /\ \A i \in 1..Len(upload_last[1].args.income) :
                           IntOf(SubSeq(upload_last[1].args.income[i].date, 7, 10))
                              = company.target_year
                     /\ company_returned = upload_last[1].returned
                ELSE upload_count = 0 /\ company_returned = Some(FALSE)

\* no filing in target_year, a filing in target_year + 1 whose revenue
\* extraction failed: its reports were uploaded and the call returned True
C29_Witness ==
    /\ company_pc = "returned"
    /\ company.filings[1].status = "none"
    /\ Qualifies(2)
    /\ company.filings[2].breakdown = "failed"
    /\ upload_count = 1
    /\ upload_last[1].args.revenue_breakdown[1].extraction_method = "failed"
    /\ company_returned = Some(TRUE)
    /\ Len(financials) = Len(upload_last[1].rows_before) + 1

====
